---- MODULE Spec2Model ----
(***************************************************************************)
(* Model of the multiplayer arena synchronisation core:                    *)
(*   - the room server (class Server: joinRoom, spawnPowerup,              *)
(*     collectPowerup, $roomTick, playerHit, ...), whose handlers are      *)
(*     async functions that read and write the shared room and user state  *)
(*     with an await between every read and write;                         *)
(*   - the client reconciliation code of GameScene (handlePlayerHitSync,   *)
(*     handlePlayerHit, updatePlayerStates, respawnPlayer,                 *)
(*     updatePlayerOnServer).                                              *)
(*                                                                         *)
(* A server handler is one action per await: the awaited call takes        *)
(* effect and the handler runs on to its next await (or returns).  What    *)
(* that stretch of code reads on the way, Date.now() and Math.random(),    *)
(* is kept in the state of the process (stale, arg, spawnRead).  Between   *)
(* two awaits of a handler other handlers run and the clock moves.  A      *)
(* client handler has no await and is one action, with the remote calls    *)
(* it makes put into net.                                                  *)
(*                                                                         *)
(* The actions of the handlers leave the history variables lastOp and      *)
(* callLog to the specification that uses them.                            *)
(*                                                                         *)
(* The specifications: SpecJoin (concurrent joinRoom calls), SpecPowerSeq  *)
(* (the powerup handlers called by one member, the tick and the clock),    *)
(* SpecPowerConc (the same with several members), SpecClient (one client   *)
(* under arbitrary input), SpecCombat (server, clients and the messages    *)
(* between them), SpecCalls (combat and relay handlers called with any     *)
(* payload), SpecServe (the hits of one member and the relays of all),     *)
(* SpecJoinTick (joins and ticks), SpecFail and SpecTick (handlers with a  *)
(* failing await), SpecSchedule (ticks and collectPowerup calls, the       *)
(* calls the clients make), SpecScene (one scene, call by call, the last   *)
(* input kept), SpecColors (the colour indices of the remote players) and  *)
(* SpecHit (one scene, connected or not yet, with handlePlayerHit called   *)
(* on any target).                                                         *)
(*                                                                         *)
(* Of a player's position a user state keeps `placed`: whether x and y     *)
(* have been written, which updatePlayerStates tests.  The coordinates,    *)
(* angle, flipX, names and projectile ids are left out: no guard of the    *)
(* modelled handlers reads them.                                           *)
(***************************************************************************)
EXTENDS Integers, Sequences, FiniteSets, TLC

VARIABLES
  members,        \* accounts currently in the room ($global room roster)
  players,        \* member account -> its server-side user state
  room,           \* the shared room state record ($room.getRoomState())
  now,            \* wall clock, Date.now()
  pc,             \* calling process -> position inside its running server handler
  stale,          \* process -> the room state its handler read (const roomState)
  arg,            \* process -> argument of its running handler (a powerup id)
  result,         \* what the last finished handler call returned or threw
  spawnRead,      \* process -> the room state its spawnPowerup read
  genCount,       \* history: number of generateObstacles() layouts written
  firstObstacles, \* history: the first obstacle layout written to the room
  serialNo,       \* history: number of powerups created so far
  announced,      \* history: the powerup ids broadcast by powerupSpawned
  collected,      \* history: serials of the powerups a completed collectPowerup removed
  lastOp,         \* history: the last handler step that ran
  clients,        \* running client -> its GameScene reconciliation state
  net,            \* calls to the server and broadcasts to clients in flight
  hitLog,         \* history: the hits detected by handlePlayerHit, in order
  respawned,      \* history: <<account, "dead" or "alive">>, the respawns the server recorded
  trail,          \* history: the health updates a client processed last
  signals,        \* history: client -> 'player-died' events dispatched since its respawn
  callLog         \* history: the server calls started, in order

serverState == <<members, players, room>>
serverProcs == <<pc, stale, arg, result, spawnRead>>
joinHistory == <<genCount, firstObstacles>>
powerHistory == <<serialNo, announced, collected>>
clientVars == <<clients, net, hitLog, respawned, trail, signals>>
callHistory == <<callLog>>

vars == <<serverState, now, serverProcs, joinHistory, powerHistory, lastOp,
         clientVars, callHistory>>

----------------------------------------------------------------------------
(* Program constants *)

MAX_PLAYERS_PER_ROOM == 8
POWERUP_SPAWN_INTERVAL == 10000
OBSTACLE_COUNT == 30
POWERUP_EXPIRY == 30000
SPAWN_BAND == 1800
SPAWN_MIN == 100
FULL_HEALTH == 100

POWERUP_TYPES == <<"health", "speed">>

(* Bounds of the model *)

NumJoiners == 2       \* accounts that call joinRoom concurrently
NumSeeds == 2         \* distinct outcomes of a run of Math.random() draws
NumCallers == 2       \* clients that call collectPowerup / spawnPowerup
MaxClock == 3         \* clock quanta the clock may advance
MaxSpawns == 2        \* powerups created in one behaviour
MaxGameTime == 2      \* cap on room.gameTime
MaxDelta == 1         \* largest deltaMS a tick is invoked with

Undefined == 0 - 1       \* a field that was never written (JS undefined)

Scheduler == 0        \* the process that runs $roomTick
Residents(k) == 1..k
Joiners == (MAX_PLAYERS_PER_ROOM + 1)..(MAX_PLAYERS_PER_ROOM + NumJoiners)
Accounts == 1..(MAX_PLAYERS_PER_ROOM + NumJoiners)
Callers == 1..NumCallers
PowerProcs == {Scheduler} \cup Callers
Seeds == 1..NumSeeds

(* The clock moves in quanta of one spawn interval, so that the ages       *)
(* 10000 (not yet a spawn), 20000 (a spawn) and exactly 30000 (expiry)     *)
(* all occur.  Date.now() is far from 0.                                   *)
ClockQuantum == POWERUP_SPAWN_INTERVAL
Epoch == 4 * POWERUP_EXPIRY

----------------------------------------------------------------------------
(* Server: state records *)

\* A user state no handler has written yet ({} in the room service).
\* `placed` stands for the fields x and y: it is TRUE when both have been
\* written (the coordinates themselves are not modelled); an animation
\* that was never written is "none".
NoState == [health |-> Undefined, score |-> Undefined, animation |-> "none",
            placed |-> FALSE]

\* The room state before joinRoom initialised it: every field undefined.
\* The handlers read undefined fields only through "|| 0" and "|| []".
EmptyRoom == [initialized |-> FALSE, gameTime |-> 0, powerups |-> <<>>,
              obstacles |-> <<>>, lastPowerupSpawn |-> 0]

\* What a handler keeps of the roomState object it read: the fields that
\* some handler reads later (none reads roomState.obstacles).
ReadOf(rs) == [initialized |-> rs.initialized, gameTime |-> rs.gameTime,
               powerups |-> rs.powerups, lastPowerupSpawn |-> rs.lastPowerupSpawn]

NothingRead == ReadOf(EmptyRoom)

\* A powerup record that no spawnPowerup built yet.
NoPowerup == [id |-> 0, type |-> "none", createdAt |-> 0, serial |-> 0]

\* What a running spawnPowerup holds between its awaits: roomState and
\* powerupData.
NoSpawn == [roomState |-> NothingRead, powerupData |-> NoPowerup]

\* Math.floor(Math.random() * 1800) + 100, the k-th draw of run `seed`.
RandomCoord(seed, k) == ((seed * 577 + k * 211) % SPAWN_BAND) + SPAWN_MIN

generateObstacles(seed) ==
  [i \in 1..OBSTACLE_COUNT |->
     [x |-> RandomCoord(seed, 2 * i - 1), y |-> RandomCoord(seed, 2 * i)]]

\* The state joinRoom seeds for the caller.
FreshPlayer == [health |-> FULL_HEALTH, score |-> 0, animation |-> "idle",
                placed |-> TRUE]

\* The updateRoomState of joinRoom's first-initialisation branch.
InitRoomState(rs, seed, t) ==
  [rs EXCEPT !.initialized = TRUE, !.gameTime = 0, !.powerups = <<>>,
             !.obstacles = generateObstacles(seed), !.lastPowerupSpawn = t]

\* No client is modelled: the specifications of the server handlers.
NoClients ==
  /\ clients = <<>>
  /\ net = {}
  /\ hitLog = <<>>
  /\ respawned = {}
  /\ trail = <<>>
  /\ signals = <<>>
  /\ callLog = <<>>

----------------------------------------------------------------------------
(* Server: joinRoom / leaveRoom, one action per await.  The actions leave  *)
(* lastOp and callLog to the specification that uses them.                 *)

ServerIdle == \A p \in DOMAIN pc : pc[p] = "idle"

\* const roomUsers = await $global.getRoomUserAccounts(roomId); the capacity test.
RoomFull(roster) == Cardinality(roster) >= MAX_PLAYERS_PER_ROOM

JoinCheck(a) ==
  /\ pc[a] = "idle"
  /\ a \notin members
  /\ IF RoomFull(members)
       THEN /\ result' = "Room is full"
            /\ pc' = pc
       ELSE /\ result' = result
            /\ pc' = [pc EXCEPT ![a] = "join_checked"]
  /\ UNCHANGED <<clientVars, members, players, room, now, stale, arg, spawnRead,
                 joinHistory, powerHistory>>

\* await $global.joinRoom(roomId)
JoinEnter(a) ==
  /\ pc[a] = "join_checked"
  /\ members' = members \cup {a}
  /\ players' = (a :> NoState) @@ players
  /\ pc' = [pc EXCEPT ![a] = "join_entered"]
  /\ UNCHANGED <<clientVars, room, now, stale, arg, result, spawnRead,
                 joinHistory, powerHistory>>

\* await $room.updateMyState({x, y, health: 100, score: 0, animation: "idle", ...})
JoinSeed(a) ==
  /\ pc[a] = "join_entered"
  /\ players' = [players EXCEPT ![a] = FreshPlayer]
  /\ pc' = [pc EXCEPT ![a] = "join_seeded"]
  /\ UNCHANGED <<clientVars, members, room, now, stale, arg, result, spawnRead,
                 joinHistory, powerHistory>>

\* const roomState = await $room.getRoomState().  An initialized room ends
\* the call: return joinedRoomId.  Otherwise obstacles = generateObstacles()
\* and Date.now() are evaluated and the handler waits for updateRoomState:
\* arg holds the seed of the layout, stale the other fields of the update.
JoinRead(a) ==
  /\ pc[a] = "join_seeded"
  /\ IF room.initialized
       THEN /\ pc' = [pc EXCEPT ![a] = "idle"]
            /\ result' = "joined"
            /\ UNCHANGED <<stale, arg>>
       ELSE \E seed \in Seeds :
              /\ pc' = [pc EXCEPT ![a] = "join_read"]
              /\ stale' = [stale EXCEPT ![a] = ReadOf(InitRoomState(room, seed, now))]
              /\ arg' = [arg EXCEPT ![a] = seed]
              /\ result' = result
  /\ UNCHANGED <<clientVars, members, players, room, now, spawnRead,
                 joinHistory, powerHistory>>

\* await $room.updateRoomState({initialized: true, gameTime: 0, powerups: [],
\* obstacles, lastPowerupSpawn}); return joinedRoomId
JoinInit(a) ==
  /\ pc[a] = "join_read"
  /\ room' = InitRoomState(room, arg[a], stale[a].lastPowerupSpawn)
  /\ genCount' = genCount + 1
  /\ firstObstacles' = IF genCount = 0 THEN generateObstacles(arg[a])
                                       ELSE firstObstacles
  /\ pc' = [pc EXCEPT ![a] = "idle"]
  /\ stale' = [stale EXCEPT ![a] = NothingRead]
  /\ arg' = [arg EXCEPT ![a] = 0]
  /\ result' = "joined"
  /\ UNCHANGED <<clientVars, members, players, now, spawnRead, powerHistory>>

\* leaveRoom: await $global.leaveRoom(); the user state leaves with the user.
LeaveRoom(a) ==
  /\ pc[a] = "idle"
  /\ a \in members
  /\ members' = members \ {a}
  /\ players' = [b \in DOMAIN players \ {a} |-> players[b]]
  /\ result' = "success"
  /\ UNCHANGED <<clientVars, room, now, pc, stale, arg, spawnRead,
                 joinHistory, powerHistory>>

----------------------------------------------------------------------------
(* Specification of concurrent joins.  The room starts as k sequential      *)
(* joins leave it (k = 0: the room does not exist yet); the joiners then   *)
(* call joinRoom(roomId) and leaveRoom in any interleaving.                *)

InitJoin ==
  /\ \E k \in 0..MAX_PLAYERS_PER_ROOM :
       /\ members = Residents(k)
       /\ players = [a \in Residents(k) |-> FreshPlayer]
       /\ IF k = 0
            THEN /\ room = EmptyRoom
                 /\ genCount = 0
                 /\ firstObstacles = <<>>
            ELSE \E seed \in Seeds :
                   /\ room = InitRoomState(EmptyRoom, seed, Epoch)
                   /\ genCount = 1
                   /\ firstObstacles = generateObstacles(seed)
  /\ now = Epoch
  /\ pc = [p \in Joiners |-> "idle"]
  /\ stale = [p \in Joiners |-> NothingRead]
  /\ arg = [p \in Joiners |-> 0]
  /\ result = "none"
  /\ spawnRead = [p \in Joiners |-> NoSpawn]
  /\ serialNo = 0
  /\ announced = {}
  /\ collected = {}
  /\ lastOp = <<"init", 0, 0>>
  /\ NoClients

\* The step is entered in lastOp; no call log is kept.
Noted(name, p, about) == lastOp' = <<name, p, about>> /\ UNCHANGED callLog

\* The steps of joinRoom
JoinSteps(a) ==
  \/ JoinCheck(a) /\ Noted("joinRoom.check", a, 0)
  \/ JoinEnter(a) /\ Noted("joinRoom.enter", a, 0)
  \/ JoinSeed(a) /\ Noted("joinRoom.seed", a, 0)
  \/ JoinRead(a) /\ Noted("joinRoom.read", a, 0)
  \/ JoinInit(a) /\ Noted("joinRoom.init", a, 0)

NextJoin ==
  \E a \in Joiners :
    \/ JoinSteps(a)
    \/ LeaveRoom(a) /\ Noted("leaveRoom", a, 0)

SpecJoin == InitJoin /\ [][NextJoin]_vars

----------------------------------------------------------------------------
(* Server: powerups.  Each operator is one awaited room-state write of a    *)
(* handler: `rs` is the room state at the time the write lands, `read` the *)
(* roomState object the handler obtained from getRoomState() earlier.      *)

\* powerupData of spawnPowerup; the id is `powerup_${Date.now()}`.  The
\* serial is a history field: it tells apart powerups created at the same
\* clock value (their x, y are not modelled).
PowerupData(t, type, serial) ==
  [id |-> t, type |-> type, createdAt |-> t, serial |-> serial]

\* updateRoomState({powerups: [...roomState.powerups, powerupData], lastPowerupSpawn});
\* the three Date.now() of lines 244, 251 and 258 are read in one run of the
\* continuation, so lastPowerupSpawn is powerupData.createdAt.
SpawnWrite(rs, read, powerupData) ==
  [rs EXCEPT !.powerups = Append(read.powerups, powerupData),
             !.lastPowerupSpawn = powerupData.createdAt]

\* Mutant of WithoutId: the filter drops only the first entry with the id.
WithoutId_FirstOnly(list, id) ==
  LET hits == {i \in 1..Len(list) : list[i].id = id}
      first == IF hits = {} THEN 0 ELSE CHOOSE i \in hits : \A j \in hits : i <= j
  IN  [k \in 1..(Len(list) - (IF first = 0 THEN 0 ELSE 1)) |->
         IF first = 0 \/ k < first THEN list[k] ELSE list[k + 1]]

\* (roomState.powerups || []).filter(p => p.id !== powerupId)
WithoutId(list, id) == SelectSeq(list, LAMBDA p : p.id # id)

\* updateRoomState({powerups}) of collectPowerup
CollectWrite(rs, read, id) == [rs EXCEPT !.powerups = WithoutId(read.powerups, id)]

\* updateRoomState({gameTime}) of $roomTick
GameTimeWrite(rs, read, deltaMS) == [rs EXCEPT !.gameTime = read.gameTime + deltaMS]

\* Mutant of SpawnDue: the interval test is >= instead of >.
SpawnDue_Inclusive(read, t) == t - read.lastPowerupSpawn >= POWERUP_SPAWN_INTERVAL

\* Date.now() - lastPowerupSpawn > this.POWERUP_SPAWN_INTERVAL
SpawnDue(read, t) == t - read.lastPowerupSpawn > POWERUP_SPAWN_INTERVAL

\* Mutant of Unexpired: the age test is <= instead of <.
Unexpired_Inclusive(list, t) ==
  SelectSeq(list, LAMBDA p : t - p.createdAt <= POWERUP_EXPIRY)

\* roomState.powerups.filter(p => currentTime - p.createdAt < 30000)
Unexpired(list, t) == SelectSeq(list, LAMBDA p : t - p.createdAt < POWERUP_EXPIRY)

\* The clean-up block of $roomTick makes its awaited write: the list the
\* tick read is not empty and the filter dropped something of it.
Sweeps(read, t) ==
  Len(read.powerups) > 0 /\ Len(Unexpired(read.powerups, t)) # Len(read.powerups)

\* updateRoomState({powerups}) of the clean-up block: the filtered copy of
\* the list read at the start of the tick; t is its currentTime.
SweepWrite(rs, read, t) == [rs EXCEPT !.powerups = Unexpired(read.powerups, t)]

Range(seq) == {seq[i] : i \in 1..Len(seq)}
Types == Range(POWERUP_TYPES)
Serials(list) == {list[i].serial : i \in 1..Len(list)}
SerialsWithId(list, id) == {list[i].serial : i \in {j \in 1..Len(list) : list[j].id = id}}
MaxNow == Epoch + MaxClock * ClockQuantum
ClockValues == {Epoch + k * ClockQuantum : k \in 0..MaxClock}
Deltas == 1..MaxDelta

----------------------------------------------------------------------------
(* Server: the powerup handlers, one action per await.  A step is the      *)
(* moment an awaited call of the room service takes effect and resolves,   *)
(* together with the synchronous code that follows it up to the next       *)
(* await; what that code reads from Date.now() and Math.random() is kept   *)
(* in the state of the process.  Other handlers and the clock move between *)
(* the steps.  The actions leave lastOp and callLog to the specification   *)
(* that uses them.                                                         *)

\* Date.now() moves on, also while handlers are suspended at an await.
AdvanceClock ==
  /\ now < MaxNow
  /\ now' = now + ClockQuantum
  /\ UNCHANGED <<clientVars, serverState, serverProcs, joinHistory, powerHistory>>

\* collectPowerup: const roomState = await $room.getRoomState(); the filter
CollectRead(c, id) ==
  /\ pc[c] = "idle"
  /\ stale' = [stale EXCEPT ![c] = ReadOf(room)]
  /\ arg' = [arg EXCEPT ![c] = id]
  /\ pc' = [pc EXCEPT ![c] = "collect_read"]
  /\ UNCHANGED <<clientVars, serverState, now, result, spawnRead, joinHistory, powerHistory>>

\* collectPowerup: await $room.updateRoomState({powerups}); return "success"
CollectStore(c) ==
  /\ pc[c] = "collect_read"
  /\ room' = CollectWrite(room, stale[c], arg[c])
  /\ collected' = collected \cup SerialsWithId(stale[c].powerups, arg[c])
                            \cup SerialsWithId(room.powerups, arg[c])
  /\ pc' = [pc EXCEPT ![c] = "idle"]
  /\ stale' = [stale EXCEPT ![c] = NothingRead]
  /\ arg' = [arg EXCEPT ![c] = 0]
  /\ result' = "success"
  /\ UNCHANGED <<clientVars, members, players, now, spawnRead, joinHistory, serialNo, announced>>

\* spawnPowerup: const roomState = await $room.getRoomState(); powerupData
\* and the new list are built (lines 244-255).
SpawnRead(p, from, to) ==
  /\ pc[p] = from
  /\ serialNo < MaxSpawns
  /\ \E type \in Types :
       spawnRead' = [spawnRead EXCEPT ![p] =
                       [roomState |-> ReadOf(room),
                        powerupData |-> PowerupData(now, type, serialNo + 1)]]
  /\ serialNo' = serialNo + 1
  /\ pc' = [pc EXCEPT ![p] = to]
  /\ UNCHANGED <<clientVars, serverState, now, stale, arg, result, joinHistory,
                 announced, collected>>

\* spawnPowerup: await $room.updateRoomState({powerups, lastPowerupSpawn})
SpawnStore(p, from, to) ==
  /\ pc[p] = from
  /\ room' = SpawnWrite(room, spawnRead[p].roomState, spawnRead[p].powerupData)
  /\ pc' = [pc EXCEPT ![p] = to]
  /\ UNCHANGED <<clientVars, members, players, now, stale, arg, result, spawnRead,
                 joinHistory, powerHistory>>

\* spawnPowerup: await $room.broadcastToRoom("powerupSpawned", powerupData)
SpawnBroadcast(p, from) ==
  /\ pc[p] = from
  /\ announced' = announced \cup {spawnRead[p].powerupData.id}
  /\ spawnRead' = [spawnRead EXCEPT ![p] = NoSpawn]
  /\ UNCHANGED <<clientVars, serverState, now, joinHistory, serialNo, collected>>

\* A tick that has read the room state or is about to test the interval
\* may still create a powerup.
PendingSpawns == IF pc[Scheduler] \in {"tick_read", "tick_spawn"} THEN 1 ELSE 0

\* spawnPowerup(roomId) called by a member
CallerSpawnRead(c) ==
  /\ serialNo + PendingSpawns < MaxSpawns
  /\ SpawnRead(c, "idle", "spawn_read")

CallerSpawnStore(c) == SpawnStore(c, "spawn_read", "spawn_stored")

\* ... return "success"
CallerSpawnBroadcast(c) ==
  /\ SpawnBroadcast(c, "spawn_stored")
  /\ pc' = [pc EXCEPT ![c] = "idle"]
  /\ result' = "success"
  /\ UNCHANGED <<stale, arg>>

\* $roomTick: const roomState = await $room.getRoomState(); gameTime is
\* computed.  A tick is started only if the powerup it may create is within
\* MaxSpawns.
TickRead(deltaMS) ==
  /\ pc[Scheduler] = "idle"
  /\ room.gameTime + deltaMS <= MaxGameTime
  /\ serialNo < MaxSpawns \/ ~SpawnDue(ReadOf(room), MaxNow)
  /\ stale' = [stale EXCEPT ![Scheduler] = ReadOf(room)]
  /\ arg' = [arg EXCEPT ![Scheduler] = deltaMS]
  /\ pc' = [pc EXCEPT ![Scheduler] = "tick_read"]
  /\ UNCHANGED <<clientVars, serverState, now, result, spawnRead, joinHistory, powerHistory>>

\* $roomTick, lines 304-313 up to the await: currentTime = Date.now() and
\* the filter; the tick ends here when the filter dropped nothing.  arg
\* keeps currentTime for the write.
TickCleanUp ==
  IF Sweeps(stale[Scheduler], now)
    THEN /\ pc' = [pc EXCEPT ![Scheduler] = "tick_sweep"]
         /\ arg' = [arg EXCEPT ![Scheduler] = now]
         /\ UNCHANGED <<stale, result>>
    ELSE /\ pc' = [pc EXCEPT ![Scheduler] = "idle"]
         /\ arg' = [arg EXCEPT ![Scheduler] = 0]
         /\ stale' = [stale EXCEPT ![Scheduler] = NothingRead]
         /\ result' = "returned"

\* $roomTick: await $room.updateRoomState({gameTime}); then the interval
\* test, and without a spawn the clean-up block up to its await.
TickGameTime ==
  /\ pc[Scheduler] = "tick_read"
  /\ room' = GameTimeWrite(room, stale[Scheduler], arg[Scheduler])
  /\ IF SpawnDue(stale[Scheduler], now)
       THEN /\ pc' = [pc EXCEPT ![Scheduler] = "tick_spawn"]
            /\ UNCHANGED <<stale, arg, result>>
       ELSE TickCleanUp
  /\ UNCHANGED <<clientVars, members, players, now, spawnRead, joinHistory,
                 powerHistory>>

\* $roomTick: await this.spawnPowerup(roomId)
TickSpawnRead == SpawnRead(Scheduler, "tick_spawn", "tick_spawn_read")

TickSpawnStore == SpawnStore(Scheduler, "tick_spawn_read", "tick_spawn_stored")

\* ... spawnPowerup returns; the clean-up block up to its await
TickSpawnBroadcast ==
  /\ SpawnBroadcast(Scheduler, "tick_spawn_stored")
  /\ TickCleanUp

\* $roomTick: await $room.updateRoomState({powerups}) of the clean-up block
TickSweep ==
  /\ pc[Scheduler] = "tick_sweep"
  /\ room' = SweepWrite(room, stale[Scheduler], arg[Scheduler])
  /\ pc' = [pc EXCEPT ![Scheduler] = "idle"]
  /\ stale' = [stale EXCEPT ![Scheduler] = NothingRead]
  /\ arg' = [arg EXCEPT ![Scheduler] = 0]
  /\ result' = "returned"
  /\ UNCHANGED <<clientVars, members, players, now, spawnRead, joinHistory,
                 powerHistory>>

(* The room as one join leaves it, with the callers as its members. *)
InitPower ==
  /\ members = Callers
  /\ players = [a \in Callers |-> FreshPlayer]
  /\ room = InitRoomState(EmptyRoom, 1, Epoch)
  /\ genCount = 1
  /\ firstObstacles = generateObstacles(1)
  /\ now = Epoch
  /\ pc = [p \in PowerProcs |-> "idle"]
  /\ stale = [p \in PowerProcs |-> NothingRead]
  /\ arg = [p \in PowerProcs |-> 0]
  /\ result = "none"
  /\ spawnRead = [p \in PowerProcs |-> NoSpawn]
  /\ serialNo = 0
  /\ announced = {}
  /\ collected = {}
  /\ lastOp = <<"init", 0, 0>>
  /\ NoClients

\* The steps of collectPowerup and spawnPowerup called by member c, and of
\* the tick, each entered in lastOp.
CallerSteps(c) ==
  \/ \E id \in announced : CollectRead(c, id) /\ Noted("collectPowerup.read", c, id)
  \/ CollectStore(c) /\ Noted("collectPowerup.store", c, arg[c])
  \/ CallerSpawnRead(c) /\ Noted("spawnPowerup.read", c, 0)
  \/ CallerSpawnStore(c) /\ Noted("spawnPowerup.store", c, 0)
  \/ CallerSpawnBroadcast(c) /\ Noted("spawnPowerup.broadcast", c, 0)

TickSteps ==
  \/ \E d \in Deltas : TickRead(d) /\ Noted("roomTick.read", Scheduler, d)
  \/ TickGameTime /\ Noted("roomTick.gameTime", Scheduler, 0)
  \/ TickSpawnRead /\ Noted("roomTick.spawnRead", Scheduler, 0)
  \/ TickSpawnStore /\ Noted("roomTick.spawnStore", Scheduler, 0)
  \/ TickSpawnBroadcast /\ Noted("roomTick.spawnBroadcast", Scheduler, 0)
  \/ TickSweep /\ Noted("roomTick.sweep", Scheduler, 0)

Clock == AdvanceClock /\ Noted("clock", 0, 0)

----------------------------------------------------------------------------
(* One member calling collectPowerup and spawnPowerup, one call after the  *)
(* other, while the room ticks and the clock moves; the member's calls and *)
(* the tick interleave at their awaits.                                    *)

Caller == CHOOSE c \in Callers : \A d \in Callers : c <= d

NextPowerSeq ==
  \/ Clock
  \/ CallerSteps(Caller)
  \/ TickSteps

SpecPowerSeq == InitPower /\ [][NextPowerSeq]_vars

----------------------------------------------------------------------------
(* All members calling collectPowerup and spawnPowerup while the room      *)
(* ticks and the clock moves.                                              *)

NextPowerConc ==
  \/ Clock
  \/ \E c \in Callers : CallerSteps(c)
  \/ TickSteps

SpecPowerConc == InitPower /\ [][NextPowerConc]_vars

----------------------------------------------------------------------------
(* Client: constants and bounds *)

HIT_DAMAGE == 10              \* const damage = 10 in handlePlayerHit
LOCAL_DAMAGE_WINDOW == 2000   \* currentTime - lastDamageTime < 2000

NumRemotes == 1       \* remote accounts the single observed client sees
MaxFrames == 2        \* frame-clock quanta the client clock may advance
MaxHits == 1          \* hits detected in one behaviour of the combat system

(* The client clock moves in half windows, so that the ages 1000 (inside   *)
(* the window) and exactly 2000 (outside) both occur.                      *)
FrameQuantum == LOCAL_DAMAGE_WINDOW \div 2
FrameValues == {Epoch + k * FrameQuantum : k \in 0..MaxFrames}

Max(a, b) == IF a >= b THEN a ELSE b

----------------------------------------------------------------------------
(* Client: the Player entity.  Its class is not among the sources; it is   *)
(* modelled from the data model of the specification: a player's health is *)
(* an integer in [0, 100] and 0 means dead.  A Player is represented by    *)
(* its health.                                                             *)

setHealth(player, value) == value
damage(player, amount) == Max(0, player - amount)
isDead(player) == player <= 0
reset(player) == FULL_HEALTH

----------------------------------------------------------------------------
(* Client: JS Map operations on functions *)

EmptyMap == [k \in {} |-> 0]
Has(map, k) == k \in DOMAIN map
Get(map, k) == IF k \in DOMAIN map THEN map[k] ELSE Undefined
Put(map, k, v) == [x \in DOMAIN map \cup {k} |-> IF x = k THEN v ELSE map[x]]
\* Mutant of Delete: the map keeps the keys.
Delete_Keeps(map, ks) == map

Delete(map, ks) == [x \in DOMAIN map \ ks |-> map[x]]

\* value || fallback, for a number or undefined
OrElse(value, fallback) == IF value = Undefined \/ value = 0 THEN fallback ELSE value

----------------------------------------------------------------------------
(* Client: the reconciliation state of one GameScene and its handlers, as  *)
(* operators from the state before a handler to the state after it.        *)

\* private myAccount: string = ""
NoAccount == 0

\* A scene after create() and setGameData(), before the first roster
\* snapshot.  playerAnimations holds the last animation of every account.
NewScene(account) ==
  [myAccount |-> account, serverInitialized |-> TRUE, player |-> FULL_HEALTH,
   otherPlayers |-> EmptyMap, damagedPlayers |-> EmptyMap,
   damageTimestamps |-> EmptyMap, playerAnimations |-> EmptyMap,
   deadPlayers |-> {}]

\* A scene after create() whose setGameData() has not run: myAccount is ""
\* and serverInitialized is false.
UnconnectedScene == [NewScene(NoAccount) EXCEPT !.serverInitialized = FALSE]

\* setGameData: if (this.server && this.server.account) { myAccount =
\* server.account; serverInitialized = true }
setGameData(scene, account) ==
  IF account = NoAccount THEN scene
  ELSE [scene EXCEPT !.myAccount = account, !.serverInitialized = TRUE]

\* The health this scene shows for an account (its own or a known remote one).
HealthOf(scene, a) ==
  IF a = scene.myAccount THEN scene.player
  ELSE IF Has(scene.otherPlayers, a) THEN scene.otherPlayers[a]
  ELSE Undefined

\* Mutant of WithDead: the test is `health < 0`.
WithDead_Negative(dead, id, health) == IF health < 0 THEN dead \cup {id} ELSE dead

\* deadPlayers.add(id) under the test `health <= 0`
WithDead(dead, id, health) == IF health <= 0 THEN dead \cup {id} ELSE dead

\* Mutant of handlePlayerHitSync: an accepted sync with a health above 0
\* takes the account out of deadPlayers.
handlePlayerHitSync_Revives(scene, data) ==
  IF data.targetId = scene.myAccount
    THEN [scene EXCEPT
            !.player = setHealth(@, data.newHealth),
            !.deadPlayers = IF data.newHealth > 0 THEN @ \ {data.targetId}
                            ELSE WithDead(@, data.targetId, data.newHealth)]
  ELSE IF Has(scene.otherPlayers, data.targetId)
    THEN LET lastDamageTime == OrElse(Get(scene.damageTimestamps, data.targetId), 0)
         IN IF data.timestamp > lastDamageTime
              THEN [scene EXCEPT
                      !.otherPlayers[data.targetId] = setHealth(@, data.newHealth),
                      !.damagedPlayers = Put(@, data.targetId, data.newHealth),
                      !.deadPlayers = IF data.newHealth > 0 THEN @ \ {data.targetId}
                                      ELSE WithDead(@, data.targetId, data.newHealth)]
              ELSE scene
  ELSE scene

\* Mutant of handlePlayerHitSync: a sync about the local player is applied
\* only if it lowers the health the client holds.
handlePlayerHitSync_OwnOnlyLower(scene, data) ==
  IF data.targetId = scene.myAccount
    THEN IF data.newHealth < scene.player
           THEN [scene EXCEPT
                   !.player = setHealth(@, data.newHealth),
                   !.deadPlayers = WithDead(@, data.targetId, data.newHealth)]
           ELSE scene
  ELSE IF Has(scene.otherPlayers, data.targetId)
    THEN LET lastDamageTime == OrElse(Get(scene.damageTimestamps, data.targetId), 0)
         IN IF data.timestamp > lastDamageTime
              THEN [scene EXCEPT
                      !.otherPlayers[data.targetId] = setHealth(@, data.newHealth),
                      !.damagedPlayers = Put(@, data.targetId, data.newHealth),
                      !.deadPlayers = WithDead(@, data.targetId, data.newHealth)]
              ELSE scene
  ELSE scene

\* Mutant of handlePlayerHitSync: the staleness test is >= instead of >.
handlePlayerHitSync_AcceptsEcho(scene, data) ==
  IF data.targetId = scene.myAccount
    THEN [scene EXCEPT
            !.player = setHealth(@, data.newHealth),
            !.deadPlayers = WithDead(@, data.targetId, data.newHealth)]
  ELSE IF Has(scene.otherPlayers, data.targetId)
    THEN LET lastDamageTime == OrElse(Get(scene.damageTimestamps, data.targetId), 0)
         IN IF data.timestamp >= lastDamageTime
              THEN [scene EXCEPT
                      !.otherPlayers[data.targetId] = setHealth(@, data.newHealth),
                      !.damagedPlayers = Put(@, data.targetId, data.newHealth),
                      !.deadPlayers = WithDead(@, data.targetId, data.newHealth)]
              ELSE scene
  ELSE scene

handlePlayerHitSync(scene, data) ==
  IF data.targetId = scene.myAccount
    THEN [scene EXCEPT
            !.player = setHealth(@, data.newHealth),
            !.deadPlayers = WithDead(@, data.targetId, data.newHealth)]
  ELSE IF Has(scene.otherPlayers, data.targetId)
    THEN LET lastDamageTime == OrElse(Get(scene.damageTimestamps, data.targetId), 0)
         IN IF data.timestamp > lastDamageTime
              THEN [scene EXCEPT
                      !.otherPlayers[data.targetId] = setHealth(@, data.newHealth),
                      !.damagedPlayers = Put(@, data.targetId, data.newHealth),
                      !.deadPlayers = WithDead(@, data.targetId, data.newHealth)]
              ELSE scene
  ELSE scene

\* Mutant of HitSkipped: only the early return for the local player.
HitSkipped_OwnOnly(scene, targetId) ==
  targetId = scene.myAccount /\ isDead(scene.player)

\* The two early returns of handlePlayerHit.
HitSkipped(scene, targetId) ==
  \/ targetId = scene.myAccount /\ isDead(scene.player)
  \/ /\ targetId # scene.myAccount
     /\ Has(scene.otherPlayers, targetId)
     /\ isDead(scene.otherPlayers[targetId])

\* handlePlayerHit: the local state it leaves (timestamp = Date.now()).
handlePlayerHit(scene, targetId, timestamp) ==
  IF HitSkipped(scene, targetId) THEN scene
  ELSE IF targetId = scene.myAccount
    THEN LET newHealth == damage(scene.player, HIT_DAMAGE)
         IN [scene EXCEPT !.player = newHealth,
                          !.deadPlayers = WithDead(@, targetId, newHealth)]
  ELSE IF Has(scene.otherPlayers, targetId)
    THEN LET newHealth == damage(scene.otherPlayers[targetId], HIT_DAMAGE)
         IN [scene EXCEPT !.otherPlayers[targetId] = newHealth,
                          !.damagedPlayers = Put(@, targetId, newHealth),
                          !.damageTimestamps = Put(@, targetId, timestamp),
                          !.deadPlayers = WithDead(@, targetId, newHealth)]
  ELSE scene

\* handlePlayerHit(targetId, attackerId, projectileId): the remote calls it
\* makes, none unless serverInitialized.
HitCalls(scene, targetId, attackerId, timestamp) ==
  LET after == handlePlayerHit(scene, targetId, timestamp)
      hit == [call |-> "playerHit", from |-> scene.myAccount,
              targetId |-> targetId, attackerId |-> attackerId,
              damage |-> HIT_DAMAGE, timestamp |-> timestamp]
      sync == [call |-> "broadcastHitSync", from |-> scene.myAccount,
               targetId |-> targetId, attackerId |-> attackerId,
               damage |-> HIT_DAMAGE,
               newHealth |-> Get(after.damagedPlayers, targetId),
               timestamp |-> timestamp]
  IN IF HitSkipped(scene, targetId) \/ ~scene.serverInitialized THEN {}
     ELSE IF targetId # scene.myAccount THEN {hit, sync}
     ELSE {hit}

\* update(): the attackerId it passes.  A melee hit on a remote player is
\* reported with attackerId = myAccount; a projectile that hits the local
\* player with the projectile's ownerId, which is not myAccount.
Attackers(scene, targetId, owners) ==
  IF targetId = scene.myAccount THEN owners \ {scene.myAccount}
                                ELSE {scene.myAccount}

\* handlePlayerHitSync: window.dispatchEvent(new CustomEvent('player-died')),
\* the number of events one call dispatches.
HitSyncSignals(scene, data) ==
  IF data.targetId = scene.myAccount /\ data.newHealth <= 0 THEN 1 ELSE 0

\* handlePlayerHit: window.dispatchEvent(new CustomEvent('player-died'))
HitSignals(scene, targetId) ==
  IF /\ ~HitSkipped(scene, targetId)
     /\ targetId = scene.myAccount
     /\ damage(scene.player, HIT_DAMAGE) <= 0
    THEN 1 ELSE 0

\* respawnPlayer: player.reset(); deadPlayers.delete(myAccount)
Revived(scene) ==
  [scene EXCEPT !.player = reset(@), !.deadPlayers = @ \ {scene.myAccount}]

\* this.playerAnimations.get(this.myAccount) || "idle"
LastAnimation(scene) ==
  IF Has(scene.playerAnimations, scene.myAccount)
    THEN scene.playerAnimations[scene.myAccount] ELSE "idle"

\* updatePlayerOnServer: the scene it leaves.  currentAnimation is "idle",
\* "walk" or "attack", read from the sprite.
updatePlayerOnServer(scene, currentAnimation) ==
  IF scene.serverInitialized /\ currentAnimation # LastAnimation(scene)
    THEN [scene EXCEPT !.playerAnimations =
                          Put(@, scene.myAccount, currentAnimation)]
    ELSE scene

\* updatePlayerOnServer: the remote calls it makes, updatePlayerPosition
\* and, if the animation changed, updatePlayerAnimation.  The payload
\* carries the sprite's x and y (placed).  afterRespawn is no field of the
\* payload: it marks the call respawnPlayer() caused, "dead" when the
\* player was dead, "alive" when it was not, and is "no" otherwise.
UpdateCalls(scene, currentAnimation, afterRespawn) ==
  IF ~scene.serverInitialized THEN {}
  ELSE {[call |-> "updatePlayerPosition", from |-> scene.myAccount,
         health |-> scene.player, animation |-> currentAnimation,
         placed |-> TRUE, respawn |-> afterRespawn]}
       \cup (IF currentAnimation # LastAnimation(scene)
               THEN {[call |-> "updatePlayerAnimation", from |-> scene.myAccount,
                      animation |-> currentAnimation]}
               ELSE {})

\* respawnPlayer(x, y): the scene it leaves; it ends with
\* if (this.serverInitialized) this.updatePlayerOnServer()
respawnPlayer(scene, currentAnimation) ==
  updatePlayerOnServer(Revived(scene), currentAnimation)

\* respawnPlayer(x, y): the remote calls it makes.
RespawnCalls(scene, currentAnimation) ==
  UpdateCalls(Revived(scene), currentAnimation,
              IF isDead(scene.player) THEN "dead" ELSE "alive")

\* handlePlayerAnimation: the animation of a known, living remote player
handlePlayerAnimation(scene, data) ==
  IF /\ data.playerId # scene.myAccount
     /\ Has(scene.otherPlayers, data.playerId)
     /\ ~isDead(scene.otherPlayers[data.playerId])
    THEN [scene EXCEPT !.playerAnimations = Put(@, data.playerId, data.animation)]
    ELSE scene

\* playerState.x !== undefined && playerState.y !== undefined
Placed(playerState) == playerState.placed

\* currentTime - lastDamageTime < 2000 for an account with a tracked health
UsesLocal(scene, id, currentTime) ==
  /\ Has(scene.damagedPlayers, id)
  /\ currentTime - OrElse(Get(scene.damageTimestamps, id), 0) < LOCAL_DAMAGE_WINDOW

\* updatePlayerStates: playerStates maps each account of the roster to its
\* user state; currentTime = Date.now().  The forEach body touches only the
\* entries of its own account, so the result is given account by account.
updatePlayerStates(scene, playerStates, currentTime) ==
  LET roster == DOMAIN playerStates
      placed == {id \in roster \ {scene.myAccount} : Placed(playerStates[id])}
      animated == {id \in placed : playerStates[id].animation # "none"}
      known == placed \cap DOMAIN scene.otherPlayers
      created == placed \ DOMAIN scene.otherPlayers
      dead == known \cap scene.deadPlayers
      local == {id \in known \ dead : UsesLocal(scene, id, currentTime)}
      server == (known \ dead) \ local
      recorded == {id \in server : playerStates[id].health # Undefined}
      seeded == {id \in created : playerStates[id].health # Undefined}
      healthAfter(id) ==
        IF id \in created
          THEN IF id \in seeded THEN setHealth(FULL_HEALTH, playerStates[id].health)
                                ELSE FULL_HEALTH
        ELSE IF id \in dead
          THEN IF scene.otherPlayers[id] > 0 THEN setHealth(scene.otherPlayers[id], 0)
                                             ELSE scene.otherPlayers[id]
        ELSE IF id \in local
          THEN setHealth(scene.otherPlayers[id], scene.damagedPlayers[id])
        ELSE IF id \in server
          THEN setHealth(scene.otherPlayers[id],
                         OrElse(playerStates[id].health, FULL_HEALTH))
        ELSE scene.otherPlayers[id]
      died == {id \in local : scene.damagedPlayers[id] <= 0}
                \cup {id \in recorded \cup seeded : playerStates[id].health <= 0}
      gone == DOMAIN scene.otherPlayers \ roster
  IN [scene EXCEPT
        !.otherPlayers =
           [id \in (DOMAIN scene.otherPlayers \cup created) \ gone |-> healthAfter(id)],
        !.playerAnimations =
           [id \in (DOMAIN scene.playerAnimations \cup animated) \ gone |->
              IF id \in animated THEN playerStates[id].animation
                                ELSE scene.playerAnimations[id]],
        !.damagedPlayers =
           [id \in (DOMAIN scene.damagedPlayers \cup recorded) \ gone |->
              IF id \in recorded THEN playerStates[id].health
                                 ELSE scene.damagedPlayers[id]],
        !.damageTimestamps = Delete(@, gone),
        !.deadPlayers = (@ \cup died) \ gone]

----------------------------------------------------------------------------
(* Server: combat handlers, as operators over the user states of the room *)

\* Math.max(0, (targetState.health || 100) - damage)
HitHealth(targetState, amount) ==
  Max(0, OrElse(targetState.health, FULL_HEALTH) - amount)

\* $room.broadcastToRoom("playerHitSync", payload): one copy per member.
\* `origin` tells the copies of two broadcasts with equal payloads apart.
BroadcastToRoom(roster, origin, payload) ==
  {[event |-> "playerHitSync", to |-> m, origin |-> origin,
    targetId |-> payload.targetId, attackerId |-> payload.attackerId,
    damage |-> payload.damage, newHealth |-> payload.newHealth,
    timestamp |-> payload.timestamp] : m \in roster}

\* playerHit: the broadcast it makes (t = Date.now()).
PlayerHitBroadcast(states, roster, data, t) ==
  IF data.targetId \notin DOMAIN states THEN {}
  ELSE BroadcastToRoom(roster, "playerHit",
         [targetId |-> data.targetId, attackerId |-> data.attackerId,
          damage |-> data.damage,
          newHealth |-> HitHealth(states[data.targetId], data.damage),
          timestamp |-> OrElse(data.timestamp, t)])

\* broadcastHitSync relays the payload as it is.
broadcastHitSync(roster, data) == BroadcastToRoom(roster, "broadcastHitSync", data)

\* updatePlayerPosition: $room.updateMyState({x, y, angle, health, animation, flipX})
updatePlayerPosition(states, sender, data) ==
  IF sender \notin DOMAIN states THEN states
  ELSE [states EXCEPT ![sender].health = data.health,
                      ![sender].animation = data.animation,
                      ![sender].placed = data.placed]

----------------------------------------------------------------------------
(* Server: the combat and relay handlers, one operator per awaited write   *)
(* or broadcast.  `read` is the user state the handler obtained from       *)
(* getUserState() earlier.                                                 *)

MaxCalls == 2         \* server calls started in one behaviour

\* What $room.getUserState(id) gives for an account that is not in the room.
NoUser == [health |-> Undefined, score |-> Undefined, animation |-> "absent",
           placed |-> FALSE]

\* Mutant of getUserState: an unknown account yields an empty state object.
getUserState_Blank(states, id) == IF id \in DOMAIN states THEN states[id] ELSE NoState

\* await $room.getUserState(id)
getUserState(states, id) == IF id \in DOMAIN states THEN states[id] ELSE NoUser

\* playerHit: await $room.updateUserState(targetId, {health: newHealth})
HitWrite(states, targetId, read, amount) ==
  [states EXCEPT ![targetId].health = HitHealth(read, amount)]

\* playerDied: if (killerId && killerId !== playerId)
KillCounts(data) == data.killerId # Undefined /\ data.killerId # data.playerId

\* playerDied: await $room.updateUserState(killerId, {score: (score || 0) + 1})
ScoreWrite(states, killerId, read) ==
  [states EXCEPT ![killerId].score = OrElse(read.score, 0) + 1]

\* The server's respawnPlayer: updateMyState({x, y, health: 100, animation: "idle"})
respawnPlayerState(states, sender) ==
  [states EXCEPT ![sender].health = FULL_HEALTH, ![sender].animation = "idle",
                 ![sender].placed = TRUE]

\* updatePlayerAnimation: updateMyState({animation, flipX})
AnimationWrite(states, sender, data) ==
  [states EXCEPT ![sender].animation = data.animation]

\* $room.broadcastToRoom(event, payload): one copy per member.
Relay(roster, event, payload) ==
  {[event |-> event, to |-> m, payload |-> payload] : m \in roster}

\* playerAttack: attackData.ownerId = $sender.account; broadcastToRoom("playerAttack", attackData)
playerAttack(roster, sender, attackData) ==
  Relay(roster, "playerAttack", [attackData EXCEPT !.ownerId = sender])

\* Mutant of fireProjectile: the handler returns without broadcasting.
fireProjectile_Silent(roster, projectileData) == {}

\* fireProjectile: broadcastToRoom("projectileFired", projectileData)
fireProjectile(roster, projectileData) == Relay(roster, "projectileFired", projectileData)

\* The payload a running playerHit holds; stamp is the timestamp of its
\* broadcast once the payload of the broadcast is built.
Held(data) ==
  [targetId |-> data.targetId, attackerId |-> data.attackerId,
   damage |-> data.damage, timestamp |-> data.timestamp, stamp |-> Undefined]

----------------------------------------------------------------------------
(* One client under arbitrary input.  The scene of account Local receives  *)
(* hit-sync messages and roster snapshots with any content and in any      *)
(* order, detects hits itself, respawns, and its clock advances.  `net`    *)
(* holds the remote calls the last handler made.                           *)

Local == 1
Remotes == (Local + 1)..(Local + NumRemotes)
Observed == {Local} \cup Remotes

HealthInputs == {0, FULL_HEALTH - HIT_DAMAGE, FULL_HEALTH}
\* What updatePlayerAnimation leaves for a member whose state is still {}:
\* an animation, no position and no health.
AnimatedOnly == [NoState EXCEPT !.animation = "walk"]
SyncInputs ==
  [targetId : Observed, newHealth : HealthInputs, timestamp : FrameValues]
StateInputs ==
  {NoState, AnimatedOnly} \cup {[FreshPlayer EXCEPT !.health = h] : h \in HealthInputs}
\* The entry of the local account is the state joinRoom seeded: the
\* handler skips it (line 828).
SnapshotInputs ==
  {playerStates \in UNION {[{Local} \cup others -> StateInputs] :
                             others \in SUBSET Remotes} :
     playerStates[Local] = FreshPlayer}

\* The animations the sprite of the observed client shows, and the
\* playerAnimation broadcasts it receives.
SceneAnimations == {"idle", "walk"}
AnimationMessages == [playerId : Observed, animation : {"walk"}]

\* The hit-syncs processed back to back for one known remote account: the
\* last two of them.
Trailed(scene, data) ==
  LET entry == [targetId |-> data.targetId, newHealth |-> data.newHealth,
                timestamp |-> data.timestamp]
  IN IF data.targetId = scene.myAccount \/ ~Has(scene.otherPlayers, data.targetId)
       THEN <<>>
     ELSE IF trail # <<>> /\ trail[Len(trail)].targetId = data.targetId
       THEN <<trail[Len(trail)], entry>>
     ELSE <<entry>>

AdvanceFrameClock ==
  /\ now < Epoch + MaxFrames * FrameQuantum
  /\ now' = now + FrameQuantum
  /\ lastOp' = <<"frame", 0, 0>>
  /\ UNCHANGED <<callLog, serverState, serverProcs, joinHistory, powerHistory, clientVars>>

RecvHitSync(data) ==
  /\ clients' = [clients EXCEPT ![Local] = handlePlayerHitSync(@, data)]
  /\ trail' = Trailed(clients[Local], data)
  /\ net' = {}
  /\ lastOp' = <<"handlePlayerHitSync", Local, data.targetId>>
  /\ UNCHANGED <<callLog, signals, serverState, now, serverProcs, joinHistory, powerHistory,
                 hitLog, respawned>>

\* update(): the melee hitbox overlaps a living remote player, or a
\* projectile overlaps the living local player.
HitDetected(scene, targetId) ==
  IF targetId = scene.myAccount THEN ~isDead(scene.player)
  ELSE Has(scene.otherPlayers, targetId) /\ ~isDead(scene.otherPlayers[targetId])

PredictHit(targetId) ==
  /\ HitDetected(clients[Local], targetId)
  /\ clients' = [clients EXCEPT ![Local] = handlePlayerHit(@, targetId, now)]
  /\ \E attackerId \in Attackers(clients[Local], targetId, Observed) :
       net' = HitCalls(clients[Local], targetId, attackerId, now)
  /\ trail' = <<>>
  /\ lastOp' = <<"handlePlayerHit", Local, targetId>>
  /\ UNCHANGED <<callLog, signals, serverState, now, serverProcs, joinHistory, powerHistory,
                 hitLog, respawned>>

RecvSnapshot(playerStates) ==
  /\ clients' = [clients EXCEPT ![Local] = updatePlayerStates(@, playerStates, now)]
  /\ net' = {}
  /\ trail' = <<>>
  /\ lastOp' = <<"updatePlayerStates", Local, 0>>
  /\ UNCHANGED <<callLog, signals, serverState, now, serverProcs, joinHistory, powerHistory,
                 hitLog, respawned>>

\* respawnPlayer(x, y), with the updatePlayerOnServer() it ends with.
RespawnLocal(currentAnimation) ==
  /\ clients' = [clients EXCEPT ![Local] = respawnPlayer(@, currentAnimation)]
  /\ net' = RespawnCalls(clients[Local], currentAnimation)
  /\ trail' = <<>>
  /\ lastOp' = <<"respawnPlayer", Local, 0>>
  /\ UNCHANGED <<callLog, signals, serverState, now, serverProcs, joinHistory, powerHistory,
                 hitLog, respawned>>

\* update(): updatePlayerOnServer(), every positionUpdateInterval once the
\* server is initialized.
SendUpdate(currentAnimation) ==
  /\ clients[Local].serverInitialized
  /\ clients' = [clients EXCEPT ![Local] = updatePlayerOnServer(@, currentAnimation)]
  /\ net' = UpdateCalls(clients[Local], currentAnimation, "no")
  /\ trail' = <<>>
  /\ lastOp' = <<"updatePlayerOnServer", Local, 0>>
  /\ UNCHANGED <<callLog, signals, serverState, now, serverProcs, joinHistory, powerHistory,
                 hitLog, respawned>>

\* A playerAnimation broadcast arrives.
RecvAnimation(data) ==
  /\ clients' = [clients EXCEPT ![Local] = handlePlayerAnimation(@, data)]
  /\ net' = {}
  /\ trail' = <<>>
  /\ lastOp' = <<"handlePlayerAnimation", Local, data.playerId>>
  /\ UNCHANGED <<callLog, signals, serverState, now, serverProcs, joinHistory, powerHistory,
                 hitLog, respawned>>

\* No server handler is running.
NoServerCalls ==
  /\ pc = <<>>
  /\ stale = <<>>
  /\ arg = <<>>
  /\ result = "none"
  /\ spawnRead = <<>>
  /\ serialNo = 0
  /\ announced = {}
  /\ collected = {}

InitClient ==
  /\ members = Observed
  /\ players = [a \in Observed |-> FreshPlayer]
  /\ room = InitRoomState(EmptyRoom, 1, Epoch)
  /\ genCount = 1
  /\ firstObstacles = generateObstacles(1)
  /\ now = Epoch
  /\ NoServerCalls
  /\ lastOp = <<"init", 0, 0>>
  /\ clients = [c \in {Local} |-> NewScene(c)]
  /\ net = UpdateCalls(NewScene(Local), "idle", "no")
  /\ hitLog = <<>>
  /\ respawned = {}
  /\ trail = <<>>
  /\ signals = <<>>
  /\ callLog = <<>>

NextClient ==
  \/ AdvanceFrameClock
  \/ \E data \in SyncInputs : RecvHitSync(data)
  \/ \E targetId \in Observed : PredictHit(targetId)
  \/ \E playerStates \in SnapshotInputs : RecvSnapshot(playerStates)
  \/ RespawnLocal("idle")
  \/ \E data \in AnimationMessages : RecvAnimation(data)

SpecClient == InitClient /\ [][NextClient]_vars

----------------------------------------------------------------------------
(* The combat system: the server and the clients of all members, with the  *)
(* remote calls and the broadcasts in flight delivered in any order.  The  *)
(* server handles a call await by await, the calls of different members    *)
(* interleave, and the clock moves at any time.  The players stand still   *)
(* (every client reports the animation "idle"); any client may call        *)
(* respawnPlayer, whether its player is dead or not.  The room service     *)
(* pushes the user states to every subscriber; a client processes a        *)
(* snapshot before the server state changes again.                         *)

NumFighters == 3      \* members of the room, each running a client
MaxPositionCalls == 1 \* updatePlayerPosition calls in flight at a time
MaxRespawns == 1      \* respawnPlayer calls in one behaviour

Fighters == 1..NumFighters
StartHealths == {HIT_DAMAGE, FULL_HEALTH}

\* The members are interchangeable: the one hit is detected by the client
\* of the first member, on the second member (a melee hit) or on itself
\* (a projectile of another member).
Hitter == CHOOSE c \in Fighters : \A d \in Fighters : c <= d
Victim == Hitter + 1

\* The scene of a member once a snapshot showed it the others at health h.
SettledScene(account, h) ==
  [NewScene(account) EXCEPT
     !.player = h,
     !.otherPlayers = [a \in Fighters \ {account} |-> h],
     !.damagedPlayers = [a \in Fighters \ {account} |-> h],
     !.playerAnimations = [a \in Fighters \ {account} |-> "idle"]]

Calls == {m \in net : "call" \in DOMAIN m}
HitSyncs == {m \in net : "event" \in DOMAIN m /\ m.event = "playerHitSync"}
PositionCalls == {m \in Calls : m.call = "updatePlayerPosition"}

\* update(): the client of c detects a hit on targetId.
DetectHit(c, targetId) ==
  /\ Len(hitLog) < MaxHits
  /\ HitDetected(clients[c], targetId)
  /\ clients' = [clients EXCEPT ![c] = handlePlayerHit(@, targetId, now)]
  /\ \E attackerId \in Attackers(clients[c], targetId, Fighters) :
       net' = net \cup HitCalls(clients[c], targetId, attackerId, now)
  /\ hitLog' = Append(hitLog, [client |-> c, targetId |-> targetId,
                               before |-> HealthOf(clients[c], targetId)])
  /\ signals' = [signals EXCEPT ![c] = @ + HitSignals(clients[c], targetId)]
  /\ lastOp' = <<"combat", 0, 0>>
  /\ UNCHANGED <<callLog, serverState, now, serverProcs, joinHistory, powerHistory,
                 respawned, trail>>

\* update(): the position update sent every positionUpdateInterval.
SendPosition(c) ==
  /\ Cardinality(PositionCalls) < MaxPositionCalls
  /\ clients' = [clients EXCEPT ![c] = updatePlayerOnServer(@, "idle")]
  /\ net' = net \cup UpdateCalls(clients[c], "idle", "no")
  /\ lastOp' = <<"combat", 0, 0>>
  /\ UNCHANGED <<callLog, signals, serverState, now, serverProcs, joinHistory, powerHistory,
                 hitLog, respawned, trail>>

\* respawnPlayer(x, y): public, callable whether the player is dead or not.
Respawn(c) ==
  /\ Cardinality(PositionCalls) < MaxPositionCalls
  /\ Len(callLog) < MaxRespawns
  /\ clients' = [clients EXCEPT ![c] = respawnPlayer(@, "idle")]
  /\ net' = net \cup RespawnCalls(clients[c], "idle")
  /\ signals' = [signals EXCEPT ![c] = 0]
  /\ callLog' = Append(callLog, [call |-> "respawnPlayer", from |-> c])
  /\ lastOp' = <<"combat", 0, 0>>
  /\ UNCHANGED <<serverState, now, serverProcs, joinHistory, powerHistory,
                 hitLog, respawned, trail>>

\* playerHit arrives: const targetState = await $room.getUserState(targetId);
\* if (!targetState) return "player not found"
ServeHitRead(m) ==
  /\ m \in Calls /\ m.call = "playerHit"
  /\ pc[m.from] = "idle"
  /\ LET targetState == getUserState(players, m.targetId)
     IN IF targetState = NoUser
          THEN /\ result' = "player not found"
               /\ UNCHANGED <<pc, stale, arg>>
          ELSE /\ stale' = [stale EXCEPT ![m.from] = targetState]
               /\ arg' = [arg EXCEPT ![m.from] = Held(m)]
               /\ pc' = [pc EXCEPT ![m.from] = "hit_read"]
               /\ result' = result
  /\ net' = net \ {m}
  /\ lastOp' = <<"combat", 0, 0>>
  /\ UNCHANGED <<callLog, signals, serverState, now, spawnRead, joinHistory,
                 powerHistory, clients, hitLog, respawned, trail>>

\* playerHit: await $room.updateUserState(targetId, {health: newHealth})
ServeHitStore(c) ==
  /\ pc[c] = "hit_read"
  /\ players' = HitWrite(players, arg[c].targetId, stale[c], arg[c].damage)
  /\ arg' = [arg EXCEPT ![c].stamp = OrElse(arg[c].timestamp, now)]
  /\ pc' = [pc EXCEPT ![c] = "hit_stored"]
  /\ respawned' = {r \in respawned : r[1] # arg[c].targetId}
  /\ lastOp' = <<"combat", 0, 0>>
  /\ UNCHANGED <<callLog, signals, members, room, now, stale, result, spawnRead,
                 joinHistory, powerHistory, clients, net, hitLog, trail>>

\* playerHit: await $room.broadcastToRoom("playerHitSync", ...); return "success"
ServeHitBroadcast(c) ==
  /\ pc[c] = "hit_stored"
  /\ net' = net \cup PlayerHitBroadcast((arg[c].targetId :> stale[c]), members,
                                        arg[c], arg[c].stamp)
  /\ pc' = [pc EXCEPT ![c] = "idle"]
  /\ stale' = [stale EXCEPT ![c] = NoUser]
  /\ arg' = [arg EXCEPT ![c] = 0]
  /\ result' = "success"
  /\ lastOp' = <<"combat", 0, 0>>
  /\ UNCHANGED <<callLog, signals, serverState, now, spawnRead, joinHistory,
                 powerHistory, clients, hitLog, respawned, trail>>

ServeBroadcastHitSync(m) ==
  /\ m \in Calls /\ m.call = "broadcastHitSync"
  /\ net' = (net \ {m}) \cup broadcastHitSync(members, m)
  /\ result' = "success"
  /\ lastOp' = <<"combat", 0, 0>>
  /\ UNCHANGED <<callLog, signals, serverState, now, pc, stale, arg, spawnRead, joinHistory,
                 powerHistory, clients, hitLog, respawned, trail>>

ServeUpdatePlayerPosition(m) ==
  /\ m \in Calls /\ m.call = "updatePlayerPosition"
  /\ players' = updatePlayerPosition(players, m.from, m)
  /\ net' = net \ {m}
  /\ respawned' = IF m.respawn = "no" THEN respawned
                   ELSE respawned \cup {<<m.from, m.respawn>>}
  /\ result' = "success"
  /\ lastOp' = <<"updatePlayerPosition", 0, 0>>
  /\ UNCHANGED <<callLog, signals, members, room, now, pc, stale, arg, spawnRead, joinHistory,
                 powerHistory, clients, hitLog, trail>>

\* A client receives a playerHitSync broadcast.
DeliverHitSync(m) ==
  /\ m \in HitSyncs
  /\ clients' = [clients EXCEPT ![m.to] = handlePlayerHitSync(@, m)]
  /\ net' = net \ {m}
  /\ signals' = [signals EXCEPT ![m.to] = @ + HitSyncSignals(clients[m.to], m)]
  /\ lastOp' = <<"combat", 0, 0>>
  /\ UNCHANGED <<callLog, serverState, now, serverProcs, joinHistory, powerHistory,
                 hitLog, respawned, trail>>

\* The room service sends subscriber c the user states of all members, and
\* the client processes them.
DeliverSnapshot(c) ==
  /\ clients' = [clients EXCEPT ![c] = updatePlayerStates(@, players, now)]
  /\ lastOp' = <<"combat", 0, 0>>
  /\ UNCHANGED <<callLog, signals, serverState, now, serverProcs, joinHistory, powerHistory,
                 net, hitLog, respawned, trail>>

\* The room in mid-game: the server has handled the updatePlayerPosition call
\* each scene made in create(), and a snapshot has shown every client the
\* others; nothing is in flight.
InitCombat ==
  /\ members = Fighters
  /\ room = InitRoomState(EmptyRoom, 1, Epoch)
  /\ genCount = 1
  /\ firstObstacles = generateObstacles(1)
  /\ now = Epoch
  /\ pc = [c \in Fighters |-> "idle"]
  /\ stale = [c \in Fighters |-> NoUser]
  /\ arg = [c \in Fighters |-> 0]
  /\ result = "none"
  /\ spawnRead = [c \in Fighters |-> NoSpawn]
  /\ serialNo = 0
  /\ announced = {}
  /\ collected = {}
  /\ lastOp = <<"init", 0, 0>>
  /\ \E h \in StartHealths :
       /\ players = [a \in Fighters |-> [FreshPlayer EXCEPT !.health = h]]
       /\ clients = [c \in Fighters |-> SettledScene(c, h)]
  /\ net = {}
  /\ hitLog = <<>>
  /\ respawned = {}
  /\ trail = <<>>
  /\ signals = [c \in Fighters |-> 0]
  /\ callLog = <<>>

NextCombat ==
  \/ AdvanceFrameClock
  \/ \E targetId \in {Hitter, Victim} : DetectHit(Hitter, targetId)
  \/ \E c \in Fighters : SendPosition(c)
  \/ \E c \in Fighters : Respawn(c)
  \/ \E m \in net : ServeHitRead(m)
  \/ \E c \in Fighters : ServeHitStore(c)
  \/ \E c \in Fighters : ServeHitBroadcast(c)
  \/ \E m \in net : ServeBroadcastHitSync(m)
  \/ \E m \in net : ServeUpdatePlayerPosition(m)
  \/ \E m \in net : DeliverHitSync(m)
  \/ \E c \in Fighters : DeliverSnapshot(c)

SpecCombat == InitCombat /\ [][NextCombat]_vars

----------------------------------------------------------------------------
(* The combat and relay handlers called by the members with any payload,   *)
(* one action per await, so that the calls of different members            *)
(* interleave.  `net` holds the broadcast the last step made; `callLog`    *)
(* records every call when it starts.                                      *)

Stranger == NumCallers + 1       \* an account that is not in the room
Targets == Callers \cup {Stranger}
Damages == {0, HIT_DAMAGE, FULL_HEALTH}
Timestamps == {Undefined, Epoch - FrameQuantum}
\* The hits a member reports: the attacker is the member itself (a melee
\* hit) or the owner of the projectile that hit it.
HitInputs ==
  [targetId : Targets, attackerId : Callers, damage : Damages, timestamp : Timestamps]
DiedInputs == [playerId : Targets, killerId : Targets \cup {Undefined}]
PositionHealths == {0 - HIT_DAMAGE, 0, HIT_DAMAGE, FULL_HEALTH, FULL_HEALTH + HIT_DAMAGE}
PositionInputs == [health : PositionHealths, animation : {"walk"}, placed : {TRUE}]
\* ownerId as a client sends it: left out, or naming someone else
AttackInputs == [type : {"melee"}, ownerId : {Undefined, Stranger}]
ProjectileInputs == [id : {1}, ownerId : Callers]
RelayedSyncs == [targetId : Targets, attackerId : {Caller}, damage : {HIT_DAMAGE},
                 newHealth : {0, FULL_HEALTH - HIT_DAMAGE}, timestamp : {Epoch}]

\* The log entry of a call: `before` is the health (playerHit) or the score
\* (playerDied) the server held for the account `about` when the call started.
Logged(call, c, about, amount, before) ==
  Append(callLog, [call |-> call, from |-> c, about |-> about,
                   amount |-> amount, before |-> before])

\* A call that starts is entered in callLog.
Starts(call, c, about, amount, before) ==
  /\ Len(callLog) < MaxCalls
  /\ callLog' = Logged(call, c, about, amount, before)

\* playerHit: const targetState = await $room.getUserState(targetId);
\* if (!targetState) return "player not found"; otherwise newHealth is
\* computed and the handler waits for updateUserState.
HitRead(c, data) ==
  /\ pc[c] = "idle"
  /\ LET targetState == getUserState(players, data.targetId)
     IN IF targetState = NoUser
          THEN /\ result' = "player not found"
               /\ UNCHANGED <<pc, stale, arg>>
          ELSE /\ stale' = [stale EXCEPT ![c] = targetState]
               /\ arg' = [arg EXCEPT ![c] = Held(data)]
               /\ pc' = [pc EXCEPT ![c] = "hit_read"]
               /\ result' = result
  /\ net' = {}
  /\ UNCHANGED <<serverState, now, spawnRead, joinHistory, powerHistory,
                 clients, hitLog, respawned, trail, signals>>

\* playerHit: await $room.updateUserState(targetId, {health: newHealth}); the
\* payload of the broadcast is built, timestamp: timestamp || Date.now().
HitStore(c) ==
  /\ pc[c] = "hit_read"
  /\ players' = HitWrite(players, arg[c].targetId, stale[c], arg[c].damage)
  /\ arg' = [arg EXCEPT ![c].stamp = OrElse(arg[c].timestamp, now)]
  /\ pc' = [pc EXCEPT ![c] = "hit_stored"]
  /\ net' = {}
  /\ UNCHANGED <<members, room, now, stale, result, spawnRead, joinHistory,
                 powerHistory, clients, hitLog, respawned, trail, signals>>

\* playerHit: await $room.broadcastToRoom("playerHitSync", {...}); return "success"
HitBroadcast(c) ==
  /\ pc[c] = "hit_stored"
  /\ net' = PlayerHitBroadcast((arg[c].targetId :> stale[c]), members, arg[c],
                               arg[c].stamp)
  /\ pc' = [pc EXCEPT ![c] = "idle"]
  /\ stale' = [stale EXCEPT ![c] = NoUser]
  /\ arg' = [arg EXCEPT ![c] = 0]
  /\ result' = "success"
  /\ UNCHANGED <<serverState, now, spawnRead, joinHistory, powerHistory,
                 clients, hitLog, respawned, trail, signals>>

\* playerDied: the test of killerId, then
\* const killerState = await $room.getUserState(killerId); if (killerState) ...
DiedRead(c, data) ==
  /\ pc[c] = "idle"
  /\ LET killerState == IF KillCounts(data) THEN getUserState(players, data.killerId)
                                            ELSE NoUser
     IN IF killerState = NoUser
          THEN /\ result' = "success"
               /\ UNCHANGED <<pc, stale, arg>>
          ELSE /\ stale' = [stale EXCEPT ![c] = killerState]
               /\ arg' = [arg EXCEPT ![c] = data]
               /\ pc' = [pc EXCEPT ![c] = "died_read"]
               /\ result' = result
  /\ net' = {}
  /\ UNCHANGED <<serverState, now, spawnRead, joinHistory, powerHistory,
                 clients, hitLog, respawned, trail, signals>>

\* playerDied: await $room.updateUserState(killerId, {score: newScore}); return "success"
DiedStore(c) ==
  /\ pc[c] = "died_read"
  /\ players' = ScoreWrite(players, arg[c].killerId, stale[c])
  /\ pc' = [pc EXCEPT ![c] = "idle"]
  /\ stale' = [stale EXCEPT ![c] = NoUser]
  /\ arg' = [arg EXCEPT ![c] = 0]
  /\ result' = "success"
  /\ net' = {}
  /\ UNCHANGED <<members, room, now, spawnRead, joinHistory, powerHistory,
                 clients, hitLog, respawned, trail, signals>>

\* updatePlayerPosition(data): one awaited updateMyState
UpdatePlayerPosition(c, data) ==
  /\ pc[c] = "idle"
  /\ players' = updatePlayerPosition(players, c, data)
  /\ result' = "success"
  /\ net' = {}
  /\ UNCHANGED <<members, room, now, pc, stale, arg, spawnRead, joinHistory,
                 powerHistory, clients, hitLog, respawned, trail, signals>>

\* respawnPlayer(data): one awaited updateMyState
RespawnPlayer(c) ==
  /\ pc[c] = "idle"
  /\ players' = respawnPlayerState(players, c)
  /\ result' = "success"
  /\ net' = {}
  /\ UNCHANGED <<members, room, now, pc, stale, arg, spawnRead, joinHistory,
                 powerHistory, clients, hitLog, respawned, trail, signals>>

\* updatePlayerAnimation: await $room.updateMyState({animation, flipX})
AnimationStore(c, data) ==
  /\ pc[c] = "idle"
  /\ players' = AnimationWrite(players, c, data)
  /\ arg' = [arg EXCEPT ![c] = data]
  /\ pc' = [pc EXCEPT ![c] = "animation_stored"]
  /\ net' = {}
  /\ UNCHANGED <<members, room, now, stale, result, spawnRead, joinHistory,
                 powerHistory, clients, hitLog, respawned, trail, signals>>

\* updatePlayerAnimation: await $room.broadcastToRoom("playerAnimation",
\* {playerId: $sender.account, animation, flipX}); return "success"
AnimationBroadcast(c) ==
  /\ pc[c] = "animation_stored"
  /\ net' = Relay(members, "playerAnimation",
                  [playerId |-> c, animation |-> arg[c].animation])
  /\ pc' = [pc EXCEPT ![c] = "idle"]
  /\ arg' = [arg EXCEPT ![c] = 0]
  /\ result' = "success"
  /\ UNCHANGED <<serverState, now, stale, spawnRead, joinHistory, powerHistory,
                 clients, hitLog, respawned, trail, signals>>

\* A relay handler: one awaited broadcastToRoom, return "success".
Relaying(c, broadcast) ==
  /\ pc[c] = "idle"
  /\ net' = broadcast
  /\ result' = "success"
  /\ UNCHANGED <<serverState, now, pc, stale, arg, spawnRead, joinHistory,
                 powerHistory, clients, hitLog, respawned, trail, signals>>

PlayerAttack(c, attackData) == Relaying(c, playerAttack(members, c, attackData))

FireProjectile(c, projectileData) ==
  Relaying(c, fireProjectile(members, projectileData))

BroadcastHitSync(c, data) == Relaying(c, broadcastHitSync(members, data))

InitCalls ==
  /\ members = Callers
  /\ players = [a \in Callers |-> FreshPlayer]
  /\ room = InitRoomState(EmptyRoom, 1, Epoch)
  /\ genCount = 1
  /\ firstObstacles = generateObstacles(1)
  /\ now = Epoch
  /\ pc = [p \in Callers |-> "idle"]
  /\ stale = [p \in Callers |-> NoUser]
  /\ arg = [p \in Callers |-> 0]
  /\ result = "none"
  /\ spawnRead = [p \in Callers |-> NoSpawn]
  /\ serialNo = 0
  /\ announced = {}
  /\ collected = {}
  /\ lastOp = <<"init", 0, 0>>
  /\ NoClients

\* The calls of member c.  A call is entered in callLog when it starts and
\* every step in lastOp.
CallsOf(c) ==
  \/ \E data \in HitInputs :
       /\ HitRead(c, data)
       /\ Starts("playerHit", c, data.targetId, data.damage,
                 getUserState(players, data.targetId).health)
       /\ lastOp' = <<"playerHit.read", c, data.targetId>>
  \/ HitStore(c) /\ Noted("playerHit.store", c, arg[c].targetId)
  \/ HitBroadcast(c) /\ Noted("playerHit.broadcast", c, arg[c].targetId)
  \/ \E data \in DiedInputs :
       /\ DiedRead(c, data)
       /\ Starts("playerDied", c, data.killerId, data.playerId,
                 (IF KillCounts(data) THEN getUserState(players, data.killerId)
                                      ELSE NoUser).score)
       /\ lastOp' = <<"playerDied.read", c, data.killerId>>
  \/ DiedStore(c) /\ Noted("playerDied.store", c, arg[c].killerId)
  \/ \E data \in PositionInputs :
       /\ UpdatePlayerPosition(c, data)
       /\ Starts("updatePlayerPosition", c, c, data.health, players[c].health)
       /\ lastOp' = <<"updatePlayerPosition", c, c>>
  \/ /\ RespawnPlayer(c)
     /\ Starts("respawnPlayer", c, c, FULL_HEALTH, players[c].health)
     /\ lastOp' = <<"respawnPlayer", c, c>>
  \/ \E attackData \in AttackInputs :
       /\ PlayerAttack(c, attackData)
       /\ Starts("playerAttack", c, c, 0, players[c].health)
       /\ lastOp' = <<"playerAttack", c, c>>
  \/ \E projectileData \in ProjectileInputs :
       /\ FireProjectile(c, projectileData)
       /\ Starts("fireProjectile", c, c, 0, players[c].health)
       /\ lastOp' = <<"fireProjectile", c, c>>
  \/ \E data \in RelayedSyncs :
       /\ BroadcastHitSync(c, data)
       /\ Starts("broadcastHitSync", c, c, 0, players[c].health)
       /\ lastOp' = <<"broadcastHitSync", c, c>>

NextCalls == \E c \in Callers : CallsOf(c)

SpecCalls == InitCalls /\ [][NextCalls]_vars

----------------------------------------------------------------------------
(* playerHit and the relay handlers with any number of calls, so that      *)
(* every health a sequence of hits can leave occurs.  One member sends     *)
(* the hits, await by await; every member calls the relay handlers         *)
(* between the awaits.                                                     *)

\* The hits of the hitter: any target, a damage that kills.
ServedHits ==
  [targetId : Targets, attackerId : {Caller}, damage : {HIT_DAMAGE, FULL_HEALTH},
   timestamp : {Undefined}]

NextServe ==
  \/ \E data \in ServedHits :
       HitRead(Caller, data) /\ Noted("playerHit.read", Caller, data.targetId)
  \/ HitStore(Caller) /\ Noted("playerHit.store", Caller, arg[Caller].targetId)
  \/ HitBroadcast(Caller) /\ Noted("playerHit.broadcast", Caller, arg[Caller].targetId)
  \/ \E c \in Callers, attackData \in AttackInputs :
       PlayerAttack(c, attackData) /\ Noted("playerAttack", c, c)
  \/ \E c \in Callers, projectileData \in ProjectileInputs :
       FireProjectile(c, projectileData) /\ Noted("fireProjectile", c, c)
  \/ \E c \in Callers, data \in RelayedSyncs :
       BroadcastHitSync(c, data) /\ Noted("broadcastHitSync", c, c)

SpecServe == InitCalls /\ [][NextServe]_vars

----------------------------------------------------------------------------
(* Joins and ticks.  The room service ticks a room from the moment it      *)
(* exists, i.e. from the first $global.joinRoom on; the joiners' joinRoom  *)
(* calls and the scheduler's $roomTick interleave at their awaits.         *)

JoinTickProcs == Joiners \cup {Scheduler}

\* $roomTick is invoked for an existing room.
RoomTickRead(deltaMS) ==
  /\ members # {}
  /\ TickRead(deltaMS)

InitJoinTick ==
  /\ \E k \in 0..MAX_PLAYERS_PER_ROOM :
       /\ members = Residents(k)
       /\ players = [a \in Residents(k) |-> FreshPlayer]
       /\ IF k = 0
            THEN /\ room = EmptyRoom
                 /\ genCount = 0
                 /\ firstObstacles = <<>>
            ELSE \E seed \in Seeds :
                   /\ room = InitRoomState(EmptyRoom, seed, Epoch)
                   /\ genCount = 1
                   /\ firstObstacles = generateObstacles(seed)
  /\ now = Epoch
  /\ pc = [p \in JoinTickProcs |-> "idle"]
  /\ stale = [p \in JoinTickProcs |-> NothingRead]
  /\ arg = [p \in JoinTickProcs |-> 0]
  /\ result = "none"
  /\ spawnRead = [p \in JoinTickProcs |-> NoSpawn]
  /\ serialNo = 0
  /\ announced = {}
  /\ collected = {}
  /\ lastOp = <<"init", 0, 0>>
  /\ NoClients

NextJoinTick ==
  \/ \E a \in Joiners : JoinSteps(a)
  \/ \E d \in Deltas : RoomTickRead(d) /\ Noted("roomTick.read", Scheduler, d)
  \/ TickGameTime /\ Noted("roomTick.gameTime", Scheduler, 0)
  \/ TickSpawnRead /\ Noted("roomTick.spawnRead", Scheduler, 0)
  \/ TickSpawnStore /\ Noted("roomTick.spawnStore", Scheduler, 0)
  \/ TickSpawnBroadcast /\ Noted("roomTick.spawnBroadcast", Scheduler, 0)
  \/ TickSweep /\ Noted("roomTick.sweep", Scheduler, 0)
  \/ Clock

SpecJoinTick == InitJoinTick /\ [][NextJoinTick]_vars

----------------------------------------------------------------------------
(* Server: failing awaits.  Every awaited call of the room service may     *)
(* reject; a rejected call has no effect and control passes to the catch   *)
(* block of the handler, which ends the call.                              *)

\* The catch blocks: every handler rethrows the error after logging it;
\* the catch of $roomTick only logs.
Rethrows_Always(handler) == TRUE

Rethrows(handler) == handler # "roomTick"

\* What the caller of a handler gets when an await of the handler rejected.
Outcome(handler) == IF Rethrows(handler) THEN "threw" ELSE "returned"

\* The handler whose await a process is suspended at.  The awaits of the
\* spawnPowerup call inside a tick lie in the try block of the tick.
HandlerAt(label) ==
  CASE label \in {"join_checked", "join_entered", "join_seeded", "join_read"} -> "joinRoom"
    [] label \in {"collect_read"} -> "collectPowerup"
    [] label \in {"spawn_read", "spawn_stored"} -> "spawnPowerup"
    [] label \in {"tick_read", "tick_spawn", "tick_spawn_read", "tick_spawn_stored",
                  "tick_sweep"} -> "roomTick"
    [] label \in {"hit_read", "hit_stored"} -> "playerHit"
    [] label \in {"died_read"} -> "playerDied"
    [] label \in {"animation_stored"} -> "updatePlayerAnimation"

\* The await process p is suspended at rejects: the catch block runs and
\* the call ends.
Reject(p) ==
  /\ pc[p] # "idle"
  /\ pc' = [pc EXCEPT ![p] = "idle"]
  /\ stale' = [stale EXCEPT ![p] = NothingRead]
  /\ arg' = [arg EXCEPT ![p] = 0]
  /\ spawnRead' = [spawnRead EXCEPT ![p] = NoSpawn]
  /\ result' = Outcome(HandlerAt(pc[p]))
  /\ net' = {}
  /\ UNCHANGED <<serverState, now, joinHistory, powerHistory, clients, hitLog,
                 respawned, trail, signals>>

\* Process p calls a handler and the first await of the handler rejects.
RejectAtCall(p, handler) ==
  /\ pc[p] = "idle"
  /\ result' = Outcome(handler)
  /\ net' = {}
  /\ UNCHANGED <<serverState, now, pc, stale, arg, spawnRead, joinHistory,
                 powerHistory, clients, hitLog, respawned, trail, signals>>

----------------------------------------------------------------------------
(* The handlers with failing awaits.  callLog holds the calls started;     *)
(* `before` is the state of the room and of its users when the call        *)
(* started, `about` is 1 once an await of the call has rejected.           *)

Snapshot == <<members, players, room>>

Begins(call, p) ==
  /\ Len(callLog) < MaxCalls
  /\ callLog' = Logged(call, p, 0, 0, Snapshot)

\* The running call of process p is marked as failed.
Marked(p) ==
  LET own == {i \in 1..Len(callLog) : callLog[i].from = p}
      last == CHOOSE i \in own : \A j \in own : j <= i
  IN  [callLog EXCEPT ![last].about = 1]

Fails(p) ==
  /\ Reject(p)
  /\ callLog' = Marked(p)
  /\ lastOp' = <<"reject", p, 0>>

FailsAtCall(p, handler) ==
  /\ RejectAtCall(p, handler)
  /\ Len(callLog) < MaxCalls
  /\ callLog' = Logged(handler, p, 1, 0, Snapshot)
  /\ lastOp' = <<"reject", p, 0>>

FailingHits(c) ==
  [targetId : Callers, attackerId : {c}, damage : {HIT_DAMAGE}, timestamp : {Undefined}]
AnimationInputs == [animation : {"walk"}]

FailingCalls(c) ==
  \/ \E data \in FailingHits(c) :
       /\ c \in members
       /\ HitRead(c, data)
       /\ Begins("playerHit", c)
       /\ lastOp' = <<"playerHit.read", c, 0>>
  \/ HitStore(c) /\ Noted("playerHit.store", c, 0)
  \/ HitBroadcast(c) /\ Noted("playerHit.broadcast", c, 0)
  \/ /\ c \in members
     /\ CallerSpawnRead(c)
     /\ Begins("spawnPowerup", c)
     /\ lastOp' = <<"spawnPowerup.read", c, 0>>
  \/ CallerSpawnStore(c) /\ Noted("spawnPowerup.store", c, 0)
  \/ CallerSpawnBroadcast(c) /\ Noted("spawnPowerup.broadcast", c, 0)
  \/ \E data \in AnimationInputs :
       /\ c \in members
       /\ AnimationStore(c, data)
       /\ Begins("updatePlayerAnimation", c)
       /\ lastOp' = <<"updatePlayerAnimation.store", c, 0>>
  \/ AnimationBroadcast(c) /\ Noted("updatePlayerAnimation.broadcast", c, 0)
  \/ Fails(c)
  \/ \E handler \in {"playerHit", "spawnPowerup", "updatePlayerAnimation"} :
       c \in members /\ FailsAtCall(c, handler)

FailingJoin(a) ==
  \/ /\ JoinCheck(a)
     /\ Begins("joinRoom", a)
     /\ lastOp' = <<"joinRoom.check", a, 0>>
  \/ JoinEnter(a) /\ Noted("joinRoom.enter", a, 0)
  \/ JoinSeed(a) /\ Noted("joinRoom.seed", a, 0)
  \/ JoinRead(a) /\ Noted("joinRoom.read", a, 0)
  \/ JoinInit(a) /\ Noted("joinRoom.init", a, 0)
  \/ Fails(a)
  \/ a \notin members /\ FailsAtCall(a, "joinRoom")

FailingTick ==
  \/ \E d \in Deltas :
       /\ RoomTickRead(d)
       /\ Begins("roomTick", Scheduler)
       /\ lastOp' = <<"roomTick.read", Scheduler, d>>
  \/ TickGameTime /\ Noted("roomTick.gameTime", Scheduler, 0)
  \/ TickSpawnRead /\ Noted("roomTick.spawnRead", Scheduler, 0)
  \/ TickSpawnStore /\ Noted("roomTick.spawnStore", Scheduler, 0)
  \/ TickSpawnBroadcast /\ Noted("roomTick.spawnBroadcast", Scheduler, 0)
  \/ TickSweep /\ Noted("roomTick.sweep", Scheduler, 0)
  \/ Fails(Scheduler)
  \/ members # {} /\ FailsAtCall(Scheduler, "roomTick")

FailProcs == PowerProcs \cup Joiners

(* The room before its first join, or with the callers as its members. *)
InitFail ==
  /\ \/ /\ members = {}
        /\ players = <<>>
        /\ room = EmptyRoom
        /\ genCount = 0
        /\ firstObstacles = <<>>
     \/ /\ members = Callers
        /\ players = [a \in Callers |-> FreshPlayer]
        /\ room = InitRoomState(EmptyRoom, 1, Epoch)
        /\ genCount = 1
        /\ firstObstacles = generateObstacles(1)
  /\ now = Epoch
  /\ pc = [p \in FailProcs |-> "idle"]
  /\ stale = [p \in FailProcs |-> NothingRead]
  /\ arg = [p \in FailProcs |-> 0]
  /\ result = "none"
  /\ spawnRead = [p \in FailProcs |-> NoSpawn]
  /\ serialNo = 0
  /\ announced = {}
  /\ collected = {}
  /\ lastOp = <<"init", 0, 0>>
  /\ NoClients

NextFail ==
  \/ Clock
  \/ \E c \in Callers : FailingCalls(c)
  \/ \E a \in Joiners : FailingJoin(a)
  \/ FailingTick

SpecFail == InitFail /\ [][NextFail]_vars

----------------------------------------------------------------------------
(* Scheduled ticks: the scheduler runs one tick after the other while the  *)
(* clock moves and a member collects powerups.  No client calls            *)
(* spawnPowerup, so every spawn is the scheduler's.  callLog keeps the     *)
(* ticks that spawned: amount is the spawn time, before the                *)
(* lastPowerupSpawn the tick read.                                         *)

\* The room as a join left it, zero, one or two spawn intervals ago.
InitSchedule ==
  /\ members = Callers
  /\ players = [a \in Callers |-> FreshPlayer]
  /\ room \in {InitRoomState(EmptyRoom, 1, Epoch - k * ClockQuantum) : k \in 0..2}
  /\ genCount = 1
  /\ firstObstacles = generateObstacles(1)
  /\ now = Epoch
  /\ pc = [p \in PowerProcs |-> "idle"]
  /\ stale = [p \in PowerProcs |-> NothingRead]
  /\ arg = [p \in PowerProcs |-> 0]
  /\ result = "none"
  /\ spawnRead = [p \in PowerProcs |-> NoSpawn]
  /\ serialNo = 0
  /\ announced = {}
  /\ collected = {}
  /\ lastOp = <<"init", 0, 0>>
  /\ NoClients

\* The spawnPowerup call of a tick builds its powerup.
ScheduledSpawnRead ==
  /\ TickSpawnRead
  /\ callLog' = Logged("roomTick", Scheduler, 0, now, stale[Scheduler].lastPowerupSpawn)
  /\ lastOp' = <<"roomTick.spawnRead", Scheduler, 0>>

NextSchedule ==
  \/ Clock
  \/ \E id \in announced : CollectRead(Caller, id) /\ Noted("collectPowerup.read", Caller, id)
  \/ CollectStore(Caller) /\ Noted("collectPowerup.store", Caller, arg[Caller])
  \/ \E d \in Deltas : TickRead(d) /\ Noted("roomTick.read", Scheduler, d)
  \/ TickGameTime /\ Noted("roomTick.gameTime", Scheduler, 0)
  \/ ScheduledSpawnRead
  \/ TickSpawnStore /\ Noted("roomTick.spawnStore", Scheduler, 0)
  \/ TickSpawnBroadcast /\ Noted("roomTick.spawnBroadcast", Scheduler, 0)
  \/ TickSweep /\ Noted("roomTick.sweep", Scheduler, 0)

SpecSchedule == InitSchedule /\ [][NextSchedule]_vars

----------------------------------------------------------------------------
(* Ticks with failing awaits, while the clock moves.  callLog keeps the    *)
(* last two ticks: `before` is the gameTime the tick read, `amount` its    *)
(* deltaMS, `about` is 1 once an await of the tick has rejected.           *)

LastTwo(log) == IF Len(log) > 2 THEN Tail(log) ELSE log

TickFails ==
  /\ Reject(Scheduler)
  /\ callLog' = [callLog EXCEPT ![Len(callLog)].about = 1]
  /\ lastOp' = <<"roomTick.reject", Scheduler, 0>>

TickFailsAtCall ==
  /\ RejectAtCall(Scheduler, "roomTick")
  /\ callLog' = LastTwo(Logged("roomTick", Scheduler, 1, 0, room.gameTime))
  /\ lastOp' = <<"roomTick.reject", Scheduler, 0>>

TickStarts(deltaMS) ==
  /\ TickRead(deltaMS)
  /\ callLog' = LastTwo(Logged("roomTick", Scheduler, 0, deltaMS, room.gameTime))
  /\ lastOp' = <<"roomTick.read", Scheduler, deltaMS>>

NextTick ==
  \/ Clock
  \/ \E d \in Deltas : TickStarts(d)
  \/ TickGameTime /\ Noted("roomTick.gameTime", Scheduler, 0)
  \/ TickSpawnRead /\ Noted("roomTick.spawnRead", Scheduler, 0)
  \/ TickSpawnStore /\ Noted("roomTick.spawnStore", Scheduler, 0)
  \/ TickSpawnBroadcast /\ Noted("roomTick.spawnBroadcast", Scheduler, 0)
  \/ TickSweep /\ Noted("roomTick.sweep", Scheduler, 0)
  \/ TickFails
  \/ TickFailsAtCall

SpecTick == InitSchedule /\ [][NextTick]_vars

----------------------------------------------------------------------------
(* Properties *)

(* C1: for every room, under any interleaving of joinRoom calls, the       *)
(* obstacle layout is generated and written exactly once, and once written *)
(* it never changes.  Stated with the history variables: at most one       *)
(* layout was ever written, and the room holds the first one.              *)
C1_ObstaclesGeneratedOnce ==
  /\ genCount <= 1
  /\ (genCount >= 1 => room.obstacles = firstObstacles)

(* C2: the membership of a room never exceeds 8, and a joinRoom against a  *)
(* room that already has 8 members fails with the room-full error and      *)
(* leaves the membership and every player state unchanged.                 *)
FullJoinRejected ==
  \A a \in Joiners :
    (RoomFull(members) /\ pc[a] = "idle" /\ lastOp' = <<"joinRoom.check", a, 0>>)
      => /\ result' = "Room is full"
         /\ pc'[a] = "idle"
         /\ members' = members
         /\ players' = players

C2_RoomNeverOverCapacity ==
  /\ [](Cardinality(members) <= MAX_PLAYERS_PER_ROOM)
  /\ [][FullJoinRejected]_vars

(* C3: on a client, once deadPlayers contains an account (the local one or *)
(* a remote one), no later health update that is not a respawn - a         *)
(* playerHitSync message, a roster snapshot or a locally detected hit, in  *)
(* any order and with any timestamp - leaves the client's health for that  *)
(* account above 0.                                                        *)
DeadStaysDown ==
  \A c \in DOMAIN clients : \A a \in clients[c].deadPlayers :
    (/\ lastOp'[1] \in {"handlePlayerHitSync", "handlePlayerHit", "updatePlayerStates"}
     /\ lastOp'[2] = c)
      => HealthOf(clients'[c], a) <= 0

C3_DeadNeverRaised == [][DeadStaysDown]_vars

(* C4: timestamp tie-break.  When a client has processed two health        *)
(* updates for the same remote account back to back, with different        *)
(* timestamps that are both newer than the client's own last recorded      *)
(* damage to the account, its health for the account is the value carried  *)
(* by the update with the greater timestamp, whichever arrived first.      *)
(* Stated for an account the client does not hold as dead.                 *)
C4_NewestTimestampWins ==
  \A c \in DOMAIN clients :
    (/\ Len(trail) = 2
     /\ lastOp[1] = "handlePlayerHitSync"
     /\ lastOp[2] = c
     /\ trail[1].timestamp # trail[2].timestamp
     /\ trail[1].targetId \notin clients[c].deadPlayers
     /\ \A i \in 1..2 :
          trail[i].timestamp >
            OrElse(Get(clients[c].damageTimestamps, trail[i].targetId), 0))
      => LET newest == IF trail[1].timestamp > trail[2].timestamp THEN trail[1]
                                                                  ELSE trail[2]
         IN HealthOf(clients[c], newest.targetId) = newest.newHealth

\* The scene of client c once it has processed the snapshot of the user
\* states the server holds now (the step DeliverSnapshot(c) takes).
NextSnapshot(c) == updatePlayerStates(clients[c], players, now)

(* C5: respawn round-trip.  After a dead account respawned (its client ran *)
(* respawnPlayer and the server recorded the full health it reported), the *)
(* next roster snapshot a client processes shows the account at health 100 *)
(* and the account is not in that client's deadPlayers.  Stated for the    *)
(* other clients, while the account is alive on its own client, no call or *)
(* broadcast is in flight and no handler is running on the server.         *)
RespawnSeen(c, a) ==
  (/\ c # a
   /\ net = {}
   /\ \A p \in Fighters : pc[p] = "idle"
   /\ <<a, "dead">> \in respawned
   /\ players[a].health = FULL_HEALTH
   /\ clients[a].player = FULL_HEALTH
   /\ a \notin clients[a].deadPlayers)
    => /\ a \notin NextSnapshot(c).deadPlayers
       /\ HealthOf(NextSnapshot(c), a) = FULL_HEALTH

C5_RespawnRoundTrip == \A c \in Fighters, a \in Fighters : RespawnSeen(c, a)

(* C6: single-hit convergence.  When one client hit another one that was   *)
(* at health 100, nothing else was hit and nobody respawned, then once no  *)
(* call or broadcast is in flight any more, no handler is running on the   *)
(* server and a client processes the next snapshot, the server and every   *)
(* client hold health 90 for the target.                                   *)
SingleHitSettled(a, b) ==
  /\ a # b
  /\ hitLog = <<[client |-> a, targetId |-> b, before |-> FULL_HEALTH]>>
  /\ callLog = <<>>
  /\ net = {}
  /\ \A p \in Fighters : pc[p] = "idle"

Converged(a, b, c) ==
  SingleHitSettled(a, b)
    => /\ players[b].health = FULL_HEALTH - HIT_DAMAGE
       /\ \A d \in Fighters :
            HealthOf(IF d = c THEN NextSnapshot(c) ELSE clients[d], b)
              = FULL_HEALTH - HIT_DAMAGE

C6_SingleHitConverges == \A a \in Fighters, b \in Fighters, c \in Fighters : Converged(a, b, c)

\* A step in which a tick ends, and the currentTime of its clean-up block.
TickEnds == pc[Scheduler] # "idle" /\ pc'[Scheduler] = "idle"
SweepTime == IF pc[Scheduler] = "tick_sweep" THEN arg[Scheduler] ELSE now

(* C7: any powerup with age >= 30000 at the time of an expiry sweep is     *)
(* absent from RoomState.powerups after that sweep completes, and running  *)
(* the sweep again without new spawns leaves powerups unchanged.  The      *)
(* sweep of a tick examines the list the tick read: when the tick ends,    *)
(* no entry of that list whose age had reached 30000 at the sweep's        *)
(* currentTime is in the room, and after the write of a sweep the same     *)
(* sweep finds nothing to write.                                           *)
C7_ExpiredAbsentAfterSweep ==
  [][TickEnds =>
       /\ \A i \in 1..Len(stale[Scheduler].powerups) :
            SweepTime - stale[Scheduler].powerups[i].createdAt >= POWERUP_EXPIRY
              => stale[Scheduler].powerups[i].serial \notin Serials(room'.powerups)
       /\ pc[Scheduler] = "tick_sweep" =>
            /\ \A i \in 1..Len(room'.powerups) :
                 SweepTime - room'.powerups[i].createdAt < POWERUP_EXPIRY
            /\ ~Sweeps(ReadOf(room'), SweepTime)
            /\ SweepWrite(room', ReadOf(room'), SweepTime) = room']_vars

\* The sweep of a tick has just written.  Of the two powerups created
\* before it, nobody collected any; the sweep removed the first one, whose
\* age had reached 30000, and kept the second one.
C7_Witness ==
  /\ lastOp[1] = "roomTick.sweep"
  /\ serialNo = 2
  /\ collected = {}
  /\ Serials(room.powerups) = {2}
  /\ now - room.powerups[1].createdAt < POWERUP_EXPIRY

\* The entries of `after` are entries of `before`, in the same order.
InPlace(before, after) ==
  \A i, j \in 1..Len(after) :
    i < j => \E k, l \in 1..Len(before) :
               k < l /\ before[k] = after[i] /\ before[l] = after[j]

(* C8: collectPowerup(id) removes the entry with that id from              *)
(* RoomState.powerups if present and leaves every other entry in place; a  *)
(* call with an absent id (including a second call with the same id)       *)
(* succeeds without error and leaves RoomState.powerups unchanged.         *)
(* Stated for the step in which the write of a collectPowerup(id) lands:   *)
(* the call returns "success", no entry with the id is left and no other   *)
(* field changes; when the list is still the one the call read, every      *)
(* other entry stays in place and an absent id changes nothing.            *)
CollectStep(c, id) ==
  lastOp' = <<"collectPowerup.store", c, id>> =>
    /\ result' = "success"
    /\ \A i \in 1..Len(room'.powerups) : room'.powerups[i].id # id
    /\ [room' EXCEPT !.powerups = room.powerups] = room
    /\ room.powerups = stale[c].powerups =>
         /\ \A i \in 1..Len(room.powerups) :
              room.powerups[i].id # id => room.powerups[i] \in Range(room'.powerups)
         /\ Range(room'.powerups) \subseteq Range(room.powerups)
         /\ Len(room'.powerups) = Cardinality(Serials(room'.powerups))
         /\ InPlace(room.powerups, room'.powerups)
         /\ (SerialsWithId(room.powerups, id) = {} => room'.powerups = room.powerups)

C8_CollectRemovesOnlyThatId ==
  [][\A c \in Callers, id \in ClockValues : CollectStep(c, id)]_vars

\* Of two powerups one was collected by the call that has just returned;
\* the other one, with another id, is still in the list.
C8_Witness ==
  /\ lastOp[1] = "collectPowerup.store"
  /\ serialNo = 2
  /\ Cardinality(collected) = 1
  /\ Len(room.powerups) = 1
  /\ room.powerups[1].id # lastOp[3]
  /\ room.powerups[1].serial \notin collected

(* C9: no lost update on the powerup list: once collectPowerup(p) has      *)
(* completed, p is absent from RoomState.powerups and never reappears,     *)
(* under any interleaving of collectPowerup, spawnPowerup and the tick.    *)
C9_CollectedNeverReappears ==
  \A i \in 1..Len(room.powerups) : room.powerups[i].serial \notin collected

(* C10: a powerup leaves RoomState.powerups only by collection or by       *)
(* expiry: a step removes a powerup only if it is the write of a           *)
(* collectPowerup with its id or the write of a tick's sweep at a          *)
(* currentTime at which its age is at least 30000; so a powerup spawned    *)
(* inside a tick is still in the list when that tick finishes.             *)
LeavesOnlyByCollectOrExpiry ==
  \A i \in 1..Len(room.powerups) :
    room.powerups[i].serial \notin Serials(room'.powerups) =>
      \/ /\ lastOp'[1] = "collectPowerup.store"
         /\ lastOp'[3] = room.powerups[i].id
      \/ /\ lastOp'[1] = "roomTick.sweep"
         /\ arg[Scheduler] - room.powerups[i].createdAt >= POWERUP_EXPIRY

C10_PowerupLeavesOnlyByCollectOrExpiry == [][LeavesOnlyByCollectOrExpiry]_vars

\* C14: a death is signalled exactly once: between two respawns a client
\* dispatches 'player-died' at most once, whether its health reached 0 by
\* the locally predicted hit, by the server's playerHitSync, or by both.
C14_DeathSignalledOnce == \A c \in DOMAIN signals : signals[c] <= 1

\* The step in which the playerHit call of c writes the health, and the one
\* in which it broadcasts.
HitStoreStep(c) ==
  pc[c] = "hit_read" /\ lastOp' = <<"playerHit.store", c, arg[c].targetId>>
HitBroadcastStep(c) ==
  pc[c] = "hit_stored" /\ lastOp' = <<"playerHit.broadcast", c, arg[c].targetId>>

\* C11: for every present target whose server health is h (0 included) and
\* every damage d >= 0, playerHit writes max(0, h - d), and broadcasts one
\* playerHitSync with that newHealth and with the claimant's timestamp when
\* one was supplied.
C11_HitWritesClampedDifference ==
  [][\A c \in Callers :
       LET h == stale[c].health
           d == arg[c].damage
       IN /\ HitStoreStep(c) =>
               players'[arg[c].targetId].health = Max(0, h - d)
          /\ HitBroadcastStep(c) =>
               \E t \in {now, arg[c].timestamp} :
                 /\ arg[c].timestamp # Undefined => t = arg[c].timestamp
                 /\ net' = BroadcastToRoom(members, "playerHit",
                             [targetId |-> arg[c].targetId,
                              attackerId |-> arg[c].attackerId, damage |-> d,
                              newHealth |-> Max(0, h - d), timestamp |-> t])]_vars

\* C12: a playerHit that names a target which is not in the room returns
\* "player not found" without raising, changes no user state and no room
\* state, and broadcasts nothing.
C12_AbsentTargetNotFound ==
  [][\A c \in Callers :
       (pc[c] = "idle" /\ lastOp' = <<"playerHit.read", c, Stranger>>) =>
          /\ result' = "player not found"
          /\ pc'[c] = "idle"
          /\ UNCHANGED <<members, players, room>>
          /\ net' = {}]_vars

\* A playerHit on the stranger has returned.
C12_Witness ==
  /\ lastOp = <<"playerHit.read", Caller, Stranger>>
  /\ result = "player not found"
  /\ \E a \in Callers : players[a].health < FULL_HEALTH

\* The playerDied calls in the log that name killer k for another player.
KillsBy(k) ==
  {i \in 1..Len(callLog) :
     /\ callLog[i].call = "playerDied"
     /\ callLog[i].about = k
     /\ callLog[i].amount # k}

\* C13: every completed playerDied call that names a present killer other
\* than the dead player raises that killer's score by exactly 1 and changes
\* nothing else, so n such calls, in any interleaving, raise it by n; a
\* call without a killer or with killerId = playerId changes nothing.
C13_EachKillScoresOne ==
  (ServerIdle /\ \A i \in 1..Len(callLog) : callLog[i].call = "playerDied") =>
     \A k \in Callers :
       /\ players[k].score = Cardinality(KillsBy(k))
       /\ players[k].health = FULL_HEALTH

\* C15: two playerHit calls on the same present target with damages d1 and
\* d2, both started when the target's server health is h and run in any
\* interleaving, leave its health at max(0, h - d1 - d2).
C15_ConcurrentHitsBothCount ==
  (/\ ServerIdle
   /\ Len(callLog) = 2
   /\ callLog[1].call = "playerHit" /\ callLog[2].call = "playerHit"
   /\ callLog[1].about = callLog[2].about
   /\ callLog[1].about \in Callers
   /\ callLog[1].before = callLog[2].before)
  => players[callLog[1].about].health =
       Max(0, callLog[1].before - callLog[1].amount - callLog[2].amount)

\* C19: in every reachable server state the health of every player is an
\* integer in [0, 100], whatever joinRoom, updatePlayerPosition, playerHit
\* and respawnPlayer calls were made and whatever their payloads were.
C19_ServerHealthInRange ==
  \A a \in DOMAIN players : players[a].health \in 0..FULL_HEALTH

\* One broadcast to the room: the same message, one copy for every member.
OneBroadcast(msgs, roster) ==
  \E m \in msgs : msgs = {[m EXCEPT !.to = r] : r \in roster}

RelayCalls == {"playerAttack", "fireProjectile", "broadcastHitSync"}

\* C20: playerAttack, fireProjectile and broadcastHitSync change no user
\* state and no room state; each emits exactly one broadcast to the room.
C20_RelaysOnlyBroadcast ==
  [][lastOp'[1] \in RelayCalls =>
       /\ UNCHANGED <<members, players, room>>
       /\ OneBroadcast(net', members)
       /\ result' = "success"]_vars

\* A fireProjectile call has been relayed to both members.
C20_Witness ==
  /\ lastOp[1] = "fireProjectile"
  /\ \A r \in Callers : \E m \in net : m.to = r /\ m.event = "projectileFired"

\* C16: once the room is initialized its gameTime never decreases, under
\* any interleaving of ticks and joinRoom calls, and the gameTime write of a
\* tick on an initialized room raises it by exactly the tick's deltaMS.
C16_GameTimeMonotonic ==
  [][/\ room.initialized => room'.gameTime >= room.gameTime
     /\ (pc[Scheduler] = "tick_read" /\ pc'[Scheduler] # "tick_read"
           /\ room.initialized)
          => room'.gameTime = room.gameTime + arg[Scheduler]]_vars

\* The tick whose steps are running follows a tick that failed.
AfterFailedTick ==
  Len(callLog) = 2 /\ callLog[1].about = 1 /\ callLog[2].about = 0

\* C17: a failure at any await inside a tick is caught inside the tick and
\* never propagates out of $roomTick, and a tick invoked after a failed tick
\* runs normally (it returns and advances gameTime by its deltaMS).  A
\* rejected await ends the tick with a normal return; the tick after it
\* writes the gameTime it read plus its deltaMS, invokes spawn exactly when
\* the interval has passed, and returns.
C17_TickFailureContained ==
  [][/\ lastOp'[1] = "roomTick.reject" =>
          /\ result' = "returned"
          /\ pc'[Scheduler] = "idle"
          /\ UNCHANGED <<members, players, room>>
     /\ AfterFailedTick =>
          /\ lastOp'[1] = "roomTick.gameTime" =>
               /\ room'.gameTime = callLog[2].before + callLog[2].amount
               /\ pc'[Scheduler] = "tick_spawn" <=> SpawnDue(stale[Scheduler], now)
          /\ (TickEnds /\ lastOp'[1] # "roomTick.reject") => result' = "returned"]_vars

\* A tick failed after its gameTime write, and the tick after it has
\* completed and advanced gameTime again.
C17_Witness ==
  /\ AfterFailedTick
  /\ pc[Scheduler] = "idle"
  /\ lastOp[1] \in {"roomTick.gameTime", "roomTick.spawnBroadcast", "roomTick.sweep"}
  /\ callLog[2].before = callLog[1].before + callLog[1].amount
  /\ room.gameTime = callLog[2].before + callLog[2].amount
  /\ result = "returned"

\* C18: no partial writes: when joinRoom, playerHit, spawnPowerup,
\* updatePlayerAnimation or a tick fails at any await, the caller gets a
\* failure signal (for a tick: the failure is logged inside the tick) and
\* the room state and every user state are exactly as they were before the
\* call started.  Stated for a call that ran alone: it is the only call
\* started so far.
C18_FailureLeavesNoTrace ==
  [][lastOp'[1] = "reject" /\ Len(callLog') = 1 =>
       /\ callLog'[1].call # "roomTick" => result' = "threw"
       /\ Snapshot' = callLog'[1].before]_vars

\* C21: a tick invokes spawn if and only if now - lastPowerupSpawn > 10000,
\* at most once per tick, and the spawn sets lastPowerupSpawn to the spawn
\* time; so with ticks that do not overlap, a scheduler-driven spawn is more
\* than 10000 ms after every earlier scheduler-driven spawn.
C21_ScheduledSpawnsSpaced ==
  [][/\ lastOp'[1] = "roomTick.gameTime" =>
          /\ stale[Scheduler].lastPowerupSpawn = room.lastPowerupSpawn
          /\ pc'[Scheduler] = "tick_spawn"
               <=> now - room.lastPowerupSpawn > POWERUP_SPAWN_INTERVAL
     /\ serialNo' # serialNo =>
          /\ lastOp'[1] = "roomTick.spawnRead"
          /\ serialNo' = serialNo + 1
          /\ \A i \in 1..Len(callLog) : now - callLog[i].amount > POWERUP_SPAWN_INTERVAL
     /\ lastOp'[1] = "roomTick.spawnStore" =>
          /\ room'.lastPowerupSpawn = callLog[Len(callLog)].amount
          /\ room'.lastPowerupSpawn = spawnRead[Scheduler].powerupData.createdAt
     /\ pc[Scheduler] \in {"tick_spawn_stored", "tick_sweep"} =>
          pc'[Scheduler] # "tick_spawn"]_vars

\* The scheduler has just stored its second spawn.
C21_Witness ==
  /\ Len(callLog) = 2
  /\ lastOp[1] = "roomTick.spawnStore"
  /\ room.lastPowerupSpawn = callLog[2].amount
  /\ callLog[2].amount - callLog[1].amount > POWERUP_SPAWN_INTERVAL

----------------------------------------------------------------------------
(* Client reconciliation: properties of one handler call *)

\* The hit-sync the client processed last, for a known remote account.
LastSync == trail[Len(trail)]

\* C22: a playerHitSync about a known remote account whose timestamp is
\* strictly greater than damageTimestamps[account] (0 when unset) sets the
\* account's health and its damagedPlayers entry to newHealth; any other
\* (equal or older, such as the echo of the client's own hit) changes
\* nothing of the scene.
C22_RemoteSyncNewerWins ==
  [][(/\ lastOp'[1] = "handlePlayerHitSync"
      /\ lastOp'[3] # Local
      /\ Has(clients[Local].otherPlayers, lastOp'[3])) =>
       LET a == lastOp'[3]
           data == trail'[Len(trail')]
           before == clients[Local]
           after == clients'[Local]
           recorded == IF Has(before.damageTimestamps, a)
                         THEN before.damageTimestamps[a] ELSE 0
       IN IF data.timestamp > recorded
            THEN /\ after.otherPlayers[a] = data.newHealth
                 /\ Has(after.damagedPlayers, a)
                 /\ after.damagedPlayers[a] = data.newHealth
            ELSE after = before]_vars

\* The client has just discarded the echo of its own hit: the message had
\* the timestamp of the local hit and another health than the client shows.
C22_Witness ==
  /\ lastOp[1] = "handlePlayerHitSync"
  /\ lastOp[3] \in Remotes
  /\ trail # <<>>
  /\ Has(clients[Local].damageTimestamps, lastOp[3])
  /\ LastSync.timestamp = clients[Local].damageTimestamps[lastOp[3]]
  /\ LastSync.newHealth # clients[Local].otherPlayers[lastOp[3]]

----------------------------------------------------------------------------
(* One scene, call by call: the handlers of SpecClient applied to the      *)
(* entries of the local account and of one remote account (a handler call  *)
(* about an account reads and writes the entries of that account only).    *)
(* trail keeps the input of the last call: the message of a hit-sync, the  *)
(* roster of a snapshot.  hitLog counts the hits detected.                 *)

Watched == Local + 1      \* the remote account
SceneHealths == {0, HIT_DAMAGE, FULL_HEALTH}
SceneSyncs ==
  [targetId : {Local, Watched}, newHealth : SceneHealths, timestamp : FrameValues]
SceneStates ==
  {NoState, AnimatedOnly} \cup {[FreshPlayer EXCEPT !.health = h] : h \in SceneHealths \cup {Undefined}}
\* playerStates of a snapshot: the local account, and the remote one or not
SceneSnapshots ==
  UNION {[{Local} \cup others -> SceneStates] : others \in SUBSET {Watched}}

SceneHitSync(data) ==
  /\ clients' = [clients EXCEPT ![Local] = handlePlayerHitSync(@, data)]
  /\ trail' = <<data>>
  /\ net' = {}
  /\ lastOp' = <<"handlePlayerHitSync", Local, data.targetId>>
  /\ UNCHANGED <<callLog, signals, serverState, now, serverProcs, joinHistory, powerHistory,
                 hitLog, respawned>>

\* The snapshot's entry of the local account is skipped by the handler
\* (line 828): it is the state joinRoom seeded.
SceneSnapshot(playerStates) ==
  /\ playerStates[Local] = FreshPlayer
  /\ clients' = [clients EXCEPT ![Local] = updatePlayerStates(@, playerStates, now)]
  /\ trail' = <<playerStates>>
  /\ net' = {}
  /\ lastOp' = <<"updatePlayerStates", Local, 0>>
  /\ UNCHANGED <<callLog, signals, serverState, now, serverProcs, joinHistory, powerHistory,
                 hitLog, respawned>>

SceneHit(targetId) ==
  /\ Len(hitLog) < MaxHits
  /\ HitDetected(clients[Local], targetId)
  /\ clients' = [clients EXCEPT ![Local] = handlePlayerHit(@, targetId, now)]
  /\ \E attackerId \in Attackers(clients[Local], targetId, {Local, Watched}) :
       net' = HitCalls(clients[Local], targetId, attackerId, now)
  /\ trail' = <<>>
  /\ hitLog' = Append(hitLog, targetId)
  /\ lastOp' = <<"handlePlayerHit", Local, targetId>>
  /\ UNCHANGED <<callLog, signals, serverState, now, serverProcs, joinHistory, powerHistory,
                 respawned>>

NextScene ==
  \/ AdvanceFrameClock
  \/ \E data \in SceneSyncs : SceneHitSync(data)
  \/ \E playerStates \in SceneSnapshots : SceneSnapshot(playerStates)
  \/ \E targetId \in {Local, Watched} : SceneHit(targetId)
  \/ RespawnLocal("idle")

SpecScene == InitClient /\ [][NextScene]_vars

\* C23: a playerHitSync whose targetId is the local account sets the local
\* player's health to the message's newHealth, whatever its timestamp and
\* whatever health the client held.
C23_OwnSyncAlwaysApplied ==
  [][lastOp'[1] = "handlePlayerHitSync" /\ lastOp'[3] = Local =>
       clients'[Local].player = trail'[1].newHealth]_vars

\* The client predicted a hit on itself (health 90) and then applied a sync
\* that carries full health and a timestamp older than its clock.
C23_Witness ==
  /\ lastOp = <<"handlePlayerHitSync", Local, Local>>
  /\ hitLog = <<Local>>
  /\ trail[1].timestamp < now
  /\ trail[1].newHealth = FULL_HEALTH
  /\ clients[Local].player = FULL_HEALTH

\* C24: a snapshot, for a remote account the scene knows and does not hold
\* as dead: if a locally tracked health exists and its damage timestamp is
\* younger than 2000 ms the health shown is the tracked value; otherwise
\* the health shown becomes the snapshot's health, for every value
\* including 0, and damagedPlayers[account] becomes that value.
C24_SnapshotHealthAdopted ==
  [][lastOp'[1] = "updatePlayerStates" =>
       LET playerStates == trail'[1]
           before == clients[Local]
           after == clients'[Local]
       IN \A a \in DOMAIN playerStates \ {Local} :
            (/\ Has(before.otherPlayers, a)
             /\ a \notin before.deadPlayers
             /\ Placed(playerStates[a])
             /\ playerStates[a].health # Undefined) =>
              IF /\ Has(before.damagedPlayers, a)
                 /\ Has(before.damageTimestamps, a)
                 /\ now - before.damageTimestamps[a] < LOCAL_DAMAGE_WINDOW
                THEN after.otherPlayers[a] = before.damagedPlayers[a]
                ELSE /\ after.otherPlayers[a] = playerStates[a].health
                     /\ after.damagedPlayers[a] = playerStates[a].health]_vars

\* C25: after every handler of a client, every account whose health on the
\* client is <= 0 (the local player or a remote one) is in deadPlayers.
C25_DeadWhenHealthGone ==
  \A a \in {Local} \cup DOMAIN clients[Local].otherPlayers :
    HealthOf(clients[Local], a) <= 0 => a \in clients[Local].deadPlayers

\* A local hit has just taken the remote account's last health points.
C25_Witness ==
  /\ lastOp = <<"handlePlayerHit", Local, Watched>>
  /\ HealthOf(clients[Local], Watched) = 0
  /\ Watched \in clients[Local].deadPlayers
  /\ Local \notin clients[Local].deadPlayers

\* C26: an account leaves deadPlayers only by respawnPlayer of that account
\* (the local one) or by its absence from the roster of a snapshot; no
\* hit-sync, snapshot health or local hit removes it.
C26_DeadUntilRespawnOrDeparture ==
  [][\A a \in clients[Local].deadPlayers \ clients'[Local].deadPlayers :
       \/ a = Local /\ lastOp'[1] = "respawnPlayer"
       \/ /\ a # Local
          /\ lastOp'[1] = "updatePlayerStates"
          /\ a \notin DOMAIN trail'[1]]_vars

\* The scene has just accepted a hit-sync with full health for the remote
\* account and still holds the account as dead.
C26_Witness ==
  /\ lastOp = <<"handlePlayerHitSync", Local, Watched>>
  /\ trail[1].newHealth = FULL_HEALTH
  /\ HealthOf(clients[Local], Watched) = FULL_HEALTH
  /\ Watched \in clients[Local].deadPlayers

----------------------------------------------------------------------------
(* Client: colour indices of the remote players.  A scene with colours is  *)
(* a scene record with two more fields: usedColorIndices and the index     *)
(* each Player of otherPlayers was constructed with.                       *)

COLOR_COUNT == 8          \* for (let i = 1; i < 9; i++); hashCode(id) % 8

\* Account ids are strings; a string is the sequence of its char codes.
\* The ids of the remote accounts: "alice", "bob", "player2".
GuestIds ==
  << <<97, 108, 105, 99, 101>>,
     <<98, 111, 98>>,
     <<112, 108, 97, 121, 101, 114, 50>> >>
Guests == (Local + 1)..(Local + Len(GuestIds))
AccountId(a) == GuestIds[a - Local]

\* A 32-bit integer is kept as its two 16-bit halves <<high, low>> while
\* the hash is computed.  hash = ((hash << 5) - hash) + char; hash = hash & hash
HashStep(hash, char) ==
  LET low == hash[2] * 31 + char
  IN <<(hash[1] * 31 + low \div 65536) % 65536, low % 65536>>

\* The signed value of the halves (the result of `hash & hash`)
ToInt32(hash) ==
  IF hash[1] >= 32768 THEN (hash[1] - 65536) * 65536 + hash[2]
                      ELSE hash[1] * 65536 + hash[2]

RECURSIVE HashFrom(_, _, _)
HashFrom(str, i, hash) ==
  IF i > Len(str) THEN hash ELSE HashFrom(str, i + 1, HashStep(hash, str[i]))

hashCode(str) == ToInt32(HashFrom(str, 1, <<0, 0>>))

\* The JS remainder a % b for b > 0: it has the sign of a.
Rem(a, b) == IF a >= 0 THEN a % b ELSE IF a % b = 0 THEN 0 ELSE (a % b) - b

Abs(a) == IF a >= 0 THEN a ELSE 0 - a

FreeIndices(used) == {i \in 1..COLOR_COUNT : i \notin used}

\* getUniqueColorIndex: the value it returns
getUniqueColorIndex(used, playerId) ==
  IF FreeIndices(used) # {}
    THEN CHOOSE i \in FreeIndices(used) : \A j \in FreeIndices(used) : i <= j
    ELSE Abs(Rem(hashCode(AccountId(playerId)), COLOR_COUNT)) + 1

\* getUniqueColorIndex: usedColorIndices after the call
UsedAfter(used, playerId) ==
  IF FreeIndices(used) # {} THEN used \cup {getUniqueColorIndex(used, playerId)}
                            ELSE used

\* const colorIndex = this.hashCode(id) % 8 + 1, of the removal loop
FreedIndex(id) == Rem(hashCode(AccountId(id)), COLOR_COUNT) + 1

NewColorScene(account) ==
  [myAccount |-> account, serverInitialized |-> TRUE, player |-> FULL_HEALTH,
   otherPlayers |-> EmptyMap, damagedPlayers |-> EmptyMap,
   damageTimestamps |-> EmptyMap, playerAnimations |-> EmptyMap,
   deadPlayers |-> {}, usedColorIndices |-> {}, colorIndex |-> EmptyMap]

\* The forEach of updatePlayerStates over the accounts of the roster, in
\* the order of the playerStates array: a Player is constructed for every
\* account the scene does not hold yet.
RECURSIVE Coloured(_, _, _)
Coloured(scene, order, i) ==
  IF i > Len(order) THEN scene
  ELSE IF order[i] = scene.myAccount \/ Has(scene.colorIndex, order[i])
    THEN Coloured(scene, order, i + 1)
  ELSE Coloured([scene EXCEPT
                   !.colorIndex = Put(@, order[i],
                                      getUniqueColorIndex(scene.usedColorIndices, order[i])),
                   !.usedColorIndices = UsedAfter(@, order[i])],
                order, i + 1)

\* updatePlayerStates with colours: order is the playerStates array as the
\* accounts it lists, every one of them placed and at full health.
updatePlayerColors(scene, order, currentTime) ==
  LET roster == {order[i] : i \in 1..Len(order)}
      playerStates == [a \in roster |-> FreshPlayer]
      joined == Coloured(updatePlayerStates(scene, playerStates, currentTime), order, 1)
      gone == DOMAIN scene.otherPlayers \ roster
  IN [joined EXCEPT
        !.usedColorIndices = @ \ {FreedIndex(id) : id \in gone},
        !.colorIndex = Delete(@, gone)]

\* The playerStates arrays: the local account and some guests, in any order.
Orders(accounts) ==
  {order \in [1..Cardinality(accounts) -> accounts] :
     \A i, j \in DOMAIN order : i # j => order[i] # order[j]}
Rosters == UNION {Orders({Local} \cup others) : others \in SUBSET Guests}

ColorSnapshot(order) ==
  /\ clients' = [clients EXCEPT ![Local] = updatePlayerColors(@, order, now)]
  /\ trail' = <<order>>
  /\ net' = {}
  /\ lastOp' = <<"updatePlayerStates", Local, Len(order)>>
  /\ UNCHANGED <<callLog, signals, serverState, now, serverProcs, joinHistory, powerHistory,
                 hitLog, respawned>>

InitColors ==
  /\ members = {Local} \cup Guests
  /\ players = [a \in {Local} \cup Guests |-> FreshPlayer]
  /\ room = InitRoomState(EmptyRoom, 1, Epoch)
  /\ genCount = 1
  /\ firstObstacles = generateObstacles(1)
  /\ now = Epoch
  /\ NoServerCalls
  /\ lastOp = <<"init", 0, 0>>
  /\ clients = [c \in {Local} |-> NewColorScene(c)]
  /\ net = UpdateCalls(NewColorScene(Local), "idle", "no")
  /\ hitLog = <<>>
  /\ respawned = {}
  /\ trail = <<>>
  /\ signals = <<>>
  /\ callLog = <<>>

NextColors == \E order \in Rosters : ColorSnapshot(order)

SpecColors == InitColors /\ [][NextColors]_vars

\* C27: after a snapshot whose roster does not contain a remote account the
\* scene held, the account has no entry in damagedPlayers, damageTimestamps,
\* deadPlayers or otherPlayers, and the colour index it was assigned is free
\* again.
C27_DepartureFreesEverything ==
  [][lastOp'[1] = "updatePlayerStates" =>
       LET before == clients[Local]
           after == clients'[Local]
           roster == {trail'[1][i] : i \in 1..Len(trail'[1])}
       IN \A a \in DOMAIN before.otherPlayers \ roster :
            /\ ~Has(after.otherPlayers, a)
            /\ ~Has(after.damagedPlayers, a)
            /\ ~Has(after.damageTimestamps, a)
            /\ a \notin after.deadPlayers
            /\ before.colorIndex[a] \notin after.usedColorIndices]_vars

\* C28: in every state of the room no two entries of powerups have the same
\* id, whatever sequence of ticks and direct spawnPowerup calls ran, two
\* spawns at the same clock value included.
C28_PowerupIdsUnique ==
  \A i, j \in 1..Len(room.powerups) :
    i # j => room.powerups[i].id # room.powerups[j].id

\* C29: the damage playerHit applied to a member is not undone by the
\* member's own position updates: an updatePlayerPosition call raises the
\* server's health of its sender only if the sender respawned since the
\* last playerHit on it.
C29_PositionKeepsDamage ==
  [][lastOp'[1] = "updatePlayerPosition" =>
       \A b \in Fighters :
         players'[b].health > players[b].health =>
           \E r \in respawned' : r[1] = b]_vars

\* C30: after every handler of a client, every key of damagedPlayers and of
\* damageTimestamps is an account of otherPlayers, and every member of
\* deadPlayers is an account of otherPlayers or the local account.
C30_TrackingOnlyKnownAccounts ==
  LET scene == clients[Local]
  IN /\ DOMAIN scene.damagedPlayers \subseteq DOMAIN scene.otherPlayers
     /\ DOMAIN scene.damageTimestamps \subseteq DOMAIN scene.otherPlayers
     /\ scene.deadPlayers \subseteq DOMAIN scene.otherPlayers \cup {Local}

\* The scene hit the remote account, recording its health and the time of
\* the hit, and then processed a snapshot without the account.
C30_Witness ==
  /\ lastOp[1] = "updatePlayerStates"
  /\ hitLog = <<Watched>>
  /\ Watched \notin DOMAIN trail[1]
  /\ clients[Local].otherPlayers = EmptyMap
  /\ clients[Local].damageTimestamps = EmptyMap

----------------------------------------------------------------------------
(* One scene whose handlePlayerHit is called for any target, dead ones     *)
(* included (update() itself calls it for living targets only).  The scene *)
(* starts connected, or before setGameData() ran: then it has no           *)
(* subscription and receives nothing until it is connected.                *)

DirectHit(targetId) ==
  /\ HitSkipped(clients[Local], targetId) \/ Len(hitLog) < MaxHits
  /\ clients' = [clients EXCEPT ![Local] = handlePlayerHit(@, targetId, now)]
  /\ \E attackerId \in Attackers(clients[Local], targetId, {Local, Watched}) :
       net' = HitCalls(clients[Local], targetId, attackerId, now)
  /\ trail' = <<>>
  /\ hitLog' = IF HitSkipped(clients[Local], targetId) THEN hitLog
               ELSE Append(hitLog, 0)   \* counted, target not recorded
  /\ lastOp' = <<"handlePlayerHit", Local, targetId>>
  /\ UNCHANGED <<callLog, signals, serverState, now, serverProcs, joinHistory, powerHistory,
                 respawned>>

\* setGameData(data) on the active scene, with the updatePlayerOnServer()
\* it ends with; currentAnimation is what the sprite plays.
SetGameData(currentAnimation) ==
  /\ clients' = [clients EXCEPT
                   ![Local] = updatePlayerOnServer(setGameData(@, Local),
                                                   currentAnimation)]
  /\ net' = UpdateCalls(setGameData(clients[Local], Local), currentAnimation, "no")
  /\ trail' = <<>>
  /\ lastOp' = <<"setGameData", Local, 0>>
  /\ UNCHANGED <<callLog, signals, serverState, now, serverProcs, joinHistory, powerHistory,
                 hitLog, respawned>>

\* setupServerSubscriptions() has run.
Subscribed == clients[Local].serverInitialized

InitHit ==
  /\ members = Observed
  /\ players = [a \in Observed |-> FreshPlayer]
  /\ room = InitRoomState(EmptyRoom, 1, Epoch)
  /\ genCount = 1
  /\ firstObstacles = generateObstacles(1)
  /\ now = Epoch
  /\ NoServerCalls
  /\ lastOp = <<"init", 0, 0>>
  /\ clients \in {[c \in {Local} |-> NewScene(c)], [c \in {Local} |-> UnconnectedScene]}
  /\ net = UpdateCalls(clients[Local], "idle", "no")
  /\ hitLog = <<>>
  /\ respawned = {}
  /\ trail = <<>>
  /\ signals = <<>>
  /\ callLog = <<>>

NextHit ==
  \/ AdvanceFrameClock
  \/ \E currentAnimation \in SceneAnimations : SetGameData(currentAnimation)
  \/ \E data \in SceneSyncs : Subscribed /\ SceneHitSync(data)
  \/ \E playerStates \in SceneSnapshots : Subscribed /\ SceneSnapshot(playerStates)
  \/ \E targetId \in {clients[Local].myAccount, Watched} : DirectHit(targetId)
  \/ \E currentAnimation \in SceneAnimations : RespawnLocal(currentAnimation)
  \/ \E currentAnimation \in SceneAnimations : SendUpdate(currentAnimation)

SpecHit == InitHit /\ [][NextHit]_vars

\* C31: handlePlayerHit for a target (the local player or a remote one)
\* whose health on the client is 0 changes nothing of the scene and sends
\* neither playerHit nor broadcastHitSync.
C31_NoHitOnDeadTarget ==
  [][(/\ lastOp'[1] = "handlePlayerHit"
      /\ HealthOf(clients[Local], lastOp'[3]) = 0) =>
       /\ clients' = clients
       /\ net' = {}]_vars

\* handlePlayerHit has just been called for the remote account at health 0:
\* no call was sent and no hit was counted.
C31_Witness ==
  /\ lastOp = <<"handlePlayerHit", Local, Watched>>
  /\ HealthOf(clients[Local], Watched) = 0
  /\ clients[Local].player > 0
  /\ net = {}
  /\ hitLog = <<>>

\* C32: on a client that never holds more than 8 remote players at a time,
\* no two remote players it holds have the same colour index, after any
\* sequence of arrivals and departures.
C32_ColorIndicesUnique ==
  \A a, b \in DOMAIN clients[Local].colorIndex :
    a # b => clients[Local].colorIndex[a] # clients[Local].colorIndex[b]

====
